---------------------------- MODULE Spec2Model ----------------------------
(***************************************************************************)
(* A model of aerie-seq-utils: the time/duration module (src/src/time.ts)  *)
(* and the sequence-JSON serializer (src/src/seqJsonToSeqn.ts).            *)
(*                                                                         *)
(* Text is modelled as a sequence of one-character strings, so that        *)
(* matching, trimming, padding and concatenation act character by          *)
(* character, as the JavaScript does.  Every function of the source is an  *)
(* operator computed the way the source computes it; the state machine     *)
(* draws an input, applies the function and records what it returned.      *)
(***************************************************************************)
EXTENDS Integers, Sequences, FiniteSets, TLC

VARIABLES
  pc,    \* "call": the input is chosen; then the function's steps; "done"
  fn,    \* the exported function that is called
  arg,   \* its arguments
  ret    \* what it returned (or that it threw)

vars == <<pc, fn, arg, ret>>

----------------------------------------------------------------------------
(* Bounds of the model.                                                    *)

\* The unit-suffixed texts that are drawn write at most this many fields.
MaxFields == 2

\* The day-of-year duration tags that are drawn write days 0..MaxDays.
MaxDays == 2

\* The instants that are drawn lie in the years 1969..1970 + MaxYearOffset.
MaxYearOffset == 2

\* The microsecond counts that are drawn reach MaxMega million.
MaxMega == 61

----------------------------------------------------------------------------
(* JavaScript strings.                                                     *)

Digits == <<"0", "1", "2", "3", "4", "5", "6", "7", "8", "9">>

DigitChars == {Digits[k] : k \in 1..10}

\* JavaScript's white space, as far as the model's alphabet has it.
WhiteSpace == {" ", "\n", "\t"}

DigitVal(c) == (CHOOSE k \in 1..10 : Digits[k] = c) - 1

\* String(n) for an integer n.
RECURSIVE NatToText(_)
NatToText(n) ==
  IF n < 10 THEN <<Digits[n + 1]>> ELSE NatToText(n \div 10) \o <<Digits[(n % 10) + 1]>>

IntToText(n) == IF n < 0 THEN <<"-">> \o NatToText(-n) ELSE NatToText(n)

\* parseInt(t) for a text of digits.
RECURSIVE DigitsToNat(_)
DigitsToNat(t) ==
  IF t = <<>> THEN 0 ELSE 10 * DigitsToNat(SubSeq(t, 1, Len(t) - 1)) + DigitVal(t[Len(t)])

\* String.prototype.padStart(n, c)
RECURSIVE padStart(_, _, _)
padStart(t, n, c) == IF Len(t) >= n THEN t ELSE padStart(<<c>> \o t, n, c)

RECURSIVE trimStart(_)
trimStart(t) ==
  IF t # <<>> /\ t[1] \in WhiteSpace THEN trimStart(Tail(t)) ELSE t

RECURSIVE trimEnd(_)
trimEnd(t) ==
  IF t # <<>> /\ t[Len(t)] \in WhiteSpace THEN trimEnd(SubSeq(t, 1, Len(t) - 1)) ELSE t

trim(t) == trimStart(trimEnd(t))

endsWith(t, suffix) ==
  /\ Len(t) >= Len(suffix)
  /\ SubSeq(t, Len(t) - Len(suffix) + 1, Len(t)) = suffix

startsWith(t, prefix) ==
  /\ Len(t) >= Len(prefix)
  /\ SubSeq(t, 1, Len(prefix)) = prefix

\* Array.prototype.join
RECURSIVE join(_, _)
join(parts, sep) ==
  IF parts = <<>> THEN <<>>
  ELSE IF Len(parts) = 1 THEN parts[1]
  ELSE parts[1] \o sep \o join(Tail(parts), sep)

\* The concatenation of a sequence of texts.
Concat(parts) == join(parts, <<>>)

----------------------------------------------------------------------------
(* JavaScript numbers.  A number is m / 10^e, kept with the least e, so    *)
(* that a written decimal fraction is held exactly.                        *)

RECURSIVE Pow10(_)
Pow10(e) == IF e = 0 THEN 1 ELSE 10 * Pow10(e - 1)

RECURSIVE Norm(_)
Norm(x) ==
  IF x.e > 0 /\ x.m % 10 = 0 THEN Norm([m |-> x.m \div 10, e |-> x.e - 1]) ELSE x

Num(i) == [m |-> i, e |-> 0]

Zero == Num(0)

IsInteger(x) == x.e = 0

Max2(a, b) == IF a >= b THEN a ELSE b

NumAdd(x, y) ==
  LET e == Max2(x.e, y.e)
  IN  Norm([m |-> x.m * Pow10(e - x.e) + y.m * Pow10(e - y.e), e |-> e])

NumNeg(x) == [m |-> -x.m, e |-> x.e]

NumMulInt(x, k) == Norm([m |-> x.m * k, e |-> x.e])

\* Math.floor(x / k) for a positive integer k
NumFloorDiv(x, k) == Num(x.m \div (k * Pow10(x.e)))

\* x % k for x >= 0 and a positive integer k
NumMod(x, k) == Norm([m |-> x.m % (k * Pow10(x.e)), e |-> x.e])

NumLess(x, y) ==
  LET e == Max2(x.e, y.e) IN x.m * Pow10(e - x.e) < y.m * Pow10(e - y.e)

\* Math.floor(x)
NumFloor(x) == x.m \div Pow10(x.e)

\* parseFloat of a text [+-]?digits[.digits], or of .digits
parseFloat(t) ==
  LET neg    == t # <<>> /\ t[1] = "-"
      body   == IF t # <<>> /\ t[1] \in {"+", "-"} THEN Tail(t) ELSE t
      dotAt  == IF \E k \in 1..Len(body) : body[k] = "."
                THEN CHOOSE k \in 1..Len(body) : body[k] = "."
                ELSE Len(body) + 1
      int    == SubSeq(body, 1, dotAt - 1)
      frac   == SubSeq(body, dotAt + 1, Len(body))
      mag    == DigitsToNat(int \o frac)
  IN  Norm([m |-> IF neg THEN -mag ELSE mag, e |-> Len(frac)])

\* parseInt of a text of digits
parseInt(t) == DigitsToNat(t)

\* String(x) for a number
NumToText(x) ==
  IF x.e = 0 THEN IntToText(x.m)
  ELSE LET mag  == IF x.m < 0 THEN -x.m ELSE x.m
           int  == NatToText(mag \div Pow10(x.e))
           frac == padStart(NatToText(mag % Pow10(x.e)), x.e, "0")
       IN  (IF x.m < 0 THEN <<"-">> ELSE <<>>) \o int \o <<".">> \o frac

----------------------------------------------------------------------------
(* Regular expressions, matched by backtracking in JavaScript's order of   *)
(* preference: a pattern yields the sequence of its matches from a         *)
(* position, the preferred first, each with the groups it captured.        *)

Undefined == <<"undefined">>

Ch(set) == [t |-> "ch", set |-> set]
Lit(c) == Ch({c})
Digit == Ch(DigitChars)
Bol == [t |-> "bol"]
Eol == [t |-> "eol"]
NotAhead(set) == [t |-> "nla", set |-> set]
Cat(rs) == [t |-> "cat", rs |-> rs]
Alt(rs) == [t |-> "alt", rs |-> rs]
Opt(r) == [t |-> "opt", r |-> r]
\* r{min,max}; max = -1 for no upper limit
Rep(r, min, max) == [t |-> "rep", r |-> r, min |-> min, max |-> max]
Plus(r) == Rep(r, 1, -1)
Star(r) == Rep(r, 0, -1)
Grp(name, r) == [t |-> "grp", name |-> name, r |-> r]

At(i, caps) == [pos |-> i, caps |-> caps]

RECURSIVE Matches(_, _, _, _)
RECURSIVE MatchesCat(_, _, _, _)
RECURSIVE MatchesAlt(_, _, _, _)
RECURSIVE MatchesRep(_, _, _, _, _, _)
RECURSIVE Continue(_, _, _, _)
RECURSIVE ContinueRep(_, _, _, _, _, _)

Matches(re, s, i, caps) ==
  CASE re.t = "ch"  -> IF i < Len(s) /\ s[i + 1] \in re.set THEN <<At(i + 1, caps)>> ELSE <<>>
    [] re.t = "bol" -> IF i = 0 THEN <<At(i, caps)>> ELSE <<>>
    [] re.t = "eol" -> IF i = Len(s) THEN <<At(i, caps)>> ELSE <<>>
    [] re.t = "nla" -> IF i < Len(s) /\ s[i + 1] \in re.set THEN <<>> ELSE <<At(i, caps)>>
    [] re.t = "cat" -> MatchesCat(re.rs, s, i, caps)
    [] re.t = "alt" -> MatchesAlt(re.rs, s, i, caps)
    [] re.t = "opt" -> Matches(re.r, s, i, caps) \o <<At(i, caps)>>
    [] re.t = "rep" -> MatchesRep(re.r, re.min, re.max, s, i, caps)
    [] re.t = "grp" ->
         LET inner == Matches(re.r, s, i, caps)
         IN  [k \in 1..Len(inner) |->
               At(inner[k].pos,
                  [inner[k].caps EXCEPT ![re.name] = SubSeq(s, i + 1, inner[k].pos)])]

\* The matches of the rest of a concatenation after each match of its head.
Continue(found, rs, s, k) ==
  IF k > Len(found) THEN <<>>
  ELSE MatchesCat(rs, s, found[k].pos, found[k].caps) \o Continue(found, rs, s, k + 1)

MatchesCat(rs, s, i, caps) ==
  IF rs = <<>> THEN <<At(i, caps)>>
  ELSE Continue(Matches(rs[1], s, i, caps), Tail(rs), s, 1)

MatchesAlt(rs, s, i, caps) ==
  IF rs = <<>> THEN <<>>
  ELSE Matches(rs[1], s, i, caps) \o MatchesAlt(Tail(rs), s, i, caps)

ContinueRep(found, r, min, max, s, k) ==
  IF k > Len(found) THEN <<>>
  ELSE (IF found[k].pos > found[k].from
        THEN MatchesRep(r, IF min > 0 THEN min - 1 ELSE 0,
                        IF max > 0 THEN max - 1 ELSE max,
                        s, found[k].pos, found[k].caps)
        ELSE <<>>)
       \o ContinueRep(found, r, min, max, s, k + 1)

\* Greedy: one more repetition is preferred to stopping.
MatchesRep(r, min, max, s, i, caps) ==
  LET once  == Matches(r, s, i, caps)
      found == [k \in 1..Len(once) |-> [pos |-> once[k].pos, caps |-> once[k].caps, from |-> i]]
      more  == IF max = 0 THEN <<>> ELSE ContinueRep(found, r, min, max, s, 1)
  IN  more \o (IF min = 0 THEN <<At(i, caps)>> ELSE <<>>)

NoCaps(names) == [n \in names |-> Undefined]

NoMatch(names) == [found |-> FALSE, index |-> 0, end |-> 0, caps |-> NoCaps(names)]

\* RegExp.prototype.exec: the preferred match from the first position that
\* has one.
RECURSIVE ExecFrom(_, _, _, _)
ExecFrom(re, names, s, start) ==
  IF start > Len(s) THEN NoMatch(names)
  ELSE LET ms == Matches(re, s, start, NoCaps(names))
       IN  IF ms # <<>>
           THEN [found |-> TRUE, index |-> start, end |-> ms[1].pos, caps |-> ms[1].caps]
           ELSE ExecFrom(re, names, s, start + 1)

Exec(re, names, s) == ExecFrom(re, names, s, 0)

\* A group's text, or the default the destructuring gives an undefined group.
Group(m, name, default) == IF m.caps[name] = Undefined THEN default ELSE m.caps[name]

----------------------------------------------------------------------------
(* src/src/time.ts: the patterns.                                          *)

DigitsN(n) == Rep(Digit, n, n)

Sign == Ch({"+", "-"})

\* /^(\d{4})-(\d{3})T(\d{2}):(\d{2}):(\d{2})(?:\.(\d{3}))?$/
ABSOLUTE_TIME ==
  Cat(<<Bol, DigitsN(4), Lit("-"), DigitsN(3), Lit("T"), DigitsN(2), Lit(":"),
        DigitsN(2), Lit(":"), DigitsN(2), Opt(Cat(<<Lit("."), DigitsN(3)>>)), Eol>>)

\* (?<doy>([0-9]{3}))?(T)?(?<hr>([0-9]{2})):(?<mins>([0-9]{2})):(?<secs>[0-9]{2})?(\.)?(?<ms>([0-9]+))?$
DoyDurationTail ==
  <<Opt(Grp("doy", DigitsN(3))), Opt(Lit("T")), Grp("hr", DigitsN(2)), Lit(":"),
    Grp("mins", DigitsN(2)), Lit(":"), Opt(Grp("secs", DigitsN(2))), Opt(Lit(".")),
    Opt(Grp("ms", Plus(Digit))), Eol>>

RELATIVE_TIME == Cat(<<Bol>> \o DoyDurationTail)

\* /(\d+)(\.[0-9]+)?$/
RELATIVE_SIMPLE == Cat(<<Plus(Digit), Opt(Cat(<<Lit("."), Plus(Digit)>>)), Eol>>)

\* /^((?<sign>[+-]?))...$/
EPOCH_TIME == Cat(<<Bol, Grp("sign", Opt(Sign))>> \o DoyDurationTail)

\* /(^[+-]?)(\d+)(\.[0-9]+)?$/
EPOCH_SIMPLE ==
  Cat(<<Bol, Opt(Sign), Plus(Digit), Opt(Cat(<<Lit("."), Plus(Digit)>>)), Eol>>)

DoyDurationGroups == {"sign", "doy", "hr", "mins", "secs", "ms"}

TimeTypes == {"ABSOLUTE", "EPOCH", "RELATIVE", "EPOCH_SIMPLE", "RELATIVE_SIMPLE"}

validateTime(time, type) ==
  CASE type = "ABSOLUTE"        -> Exec(ABSOLUTE_TIME, {}, time).found
    [] type = "EPOCH"           -> Exec(EPOCH_TIME, DoyDurationGroups, time).found
    [] type = "RELATIVE"        -> Exec(RELATIVE_TIME, DoyDurationGroups, time).found
    [] type = "EPOCH_SIMPLE"    -> Exec(EPOCH_SIMPLE, {}, time).found
    [] type = "RELATIVE_SIMPLE" -> Exec(RELATIVE_SIMPLE, {}, time).found
    [] OTHER                    -> FALSE

----------------------------------------------------------------------------
(* src/src/time.ts: durations.                                             *)

Null == [kind |-> "null"]

Duration(years, days, hours, minutes, seconds, milliseconds, microseconds, isNegative) ==
  [kind |-> "duration", years |-> years, days |-> days, hours |-> hours,
   minutes |-> minutes, seconds |-> seconds, milliseconds |-> milliseconds,
   microseconds |-> microseconds, isNegative |-> isNegative]

\* A variant that takes any written sign, '+' too, for a negative one.
DoyDurationAnySign(matches) ==
  IF matches.found
  THEN Duration(Zero,
                Num(parseInt(Group(matches, "doy", <<"0">>))),
                Num(parseInt(Group(matches, "hr", <<"0">>))),
                Num(parseInt(Group(matches, "mins", <<"0">>))),
                Num(parseInt(Group(matches, "secs", <<"0">>))),
                Num(parseInt(Group(matches, "ms", <<"0">>))),
                Zero,
                Group(matches, "sign", <<>>) # <<>>)
  ELSE Null

\* The duration of a matched day-of-year tag: the destructuring's defaults,
\* then parseInt of each group.
DoyDurationOfMatch(matches) ==
  IF matches.found
  THEN Duration(Zero,
                Num(parseInt(Group(matches, "doy", <<"0">>))),
                Num(parseInt(Group(matches, "hr", <<"0">>))),
                Num(parseInt(Group(matches, "mins", <<"0">>))),
                Num(parseInt(Group(matches, "secs", <<"0">>))),
                Num(parseInt(Group(matches, "ms", <<"0">>))),
                Zero,
                Group(matches, "sign", <<>>) # <<>> /\ Group(matches, "sign", <<>>) # <<"+">>)
  ELSE Null

parseDOYDurationTime(doyTime) ==
  DoyDurationOfMatch(Exec(IF validateTime(doyTime, "EPOCH") THEN EPOCH_TIME ELSE RELATIVE_TIME,
                          DoyDurationGroups, doyTime))

\* The pattern of parseDoyOrYmdTime, case-insensitive.
DoyOrYmd(numDecimals) ==
  Cat(<<Bol, Grp("year", DigitsN(4)), Lit("-"),
        Alt(<<Cat(<<Grp("month", Alt(<<Cat(<<Opt(Lit("0")), Digit>>),
                                       Cat(<<Lit("1"), Ch({"0", "1", "2"})>>)>>)),
                    Lit("-"),
                    Grp("day", Alt(<<Cat(<<Opt(Ch({"0", "1", "2"})), Digit>>),
                                     Cat(<<Lit("3"), Ch({"0", "1"})>>)>>))>>),
              Grp("doy", Rep(Digit, 1, 3))>>),
        Opt(Cat(<<Ch({"T", "t"}),
                  Grp("time",
                      Cat(<<Grp("hour", Alt(<<Digit, Cat(<<Ch({"0", "1", "2"}), Digit>>)>>)),
                            Opt(Cat(<<Lit(":"),
                                      Grp("min", Alt(<<Digit,
                                                       Cat(<<Ch({"0", "1", "2", "3", "4", "5"}), Digit>>)>>))>>)),
                            Opt(Cat(<<Lit(":"),
                                      Grp("sec", Alt(<<Digit,
                                                       Cat(<<Ch({"0", "1", "2", "3", "4", "5"}), Digit>>)>>)),
                                      Opt(Grp("dec", Cat(<<Lit("."), Rep(Digit, 1, numDecimals)>>)))>>))>>))>>)),
        Eol>>)

DoyOrYmdGroups == {"year", "month", "day", "doy", "time", "hour", "min", "sec", "dec"}

msPerSecond == 1000

defaultNumDecimals == 6

\* The fields both calendar forms share.  ms is
\* parseFloat((parseFloat(dec) * msPerSecond).toFixed(numDecimals)): the
\* product has at most numDecimals decimals when dec has, so that toFixed
\* only removes the floating-point error of the product.
PartialReturn(matches, kind) ==
  [kind |-> kind,
   hour |-> parseInt(Group(matches, "hour", <<"0">>)),
   min  |-> parseInt(Group(matches, "min", <<"0">>)),
   ms   |-> NumMulInt(parseFloat(Group(matches, "dec", <<".", "0">>)), msPerSecond),
   sec  |-> parseInt(Group(matches, "sec", <<"0">>)),
   time |-> Group(matches, "time", <<"0", "0", ":", "0", "0", ":", "0", "0">>),
   year |-> parseInt(matches.caps["year"])]

\* What parseDoyOrYmdTime returns for the match of its pattern.
CalendarOfMatch(matches, dateString) ==
  IF matches.found
  THEN IF matches.caps["doy"] # Undefined
       THEN [doy |-> parseInt(matches.caps["doy"])] @@ PartialReturn(matches, "doy")
       ELSE [day |-> parseInt(matches.caps["day"]), month |-> parseInt(matches.caps["month"])]
            @@ PartialReturn(matches, "ymd")
  ELSE parseDOYDurationTime(dateString)

parseDoyOrYmdTime(dateString, numDecimals) ==
  CalendarOfMatch(Exec(DoyOrYmd(numDecimals), DoyOrYmdGroups, dateString), dateString)

\* ([+-]?)(\d+)(\.\d+)?
validDurationValueRegex ==
  Cat(<<Opt(Sign), Plus(Digit), Opt(Cat(<<Lit("."), Plus(Digit)>>))>>)

\* (?:\s*(?<name>value)suffix)
UnitRegex(name, suffix) ==
  Cat(<<Star(Ch(WhiteSpace)), Grp(name, validDurationValueRegex)>> \o suffix)

fullValidDurationRegex ==
  Cat(<<Bol,
        Opt(Grp("isNegative", Lit("-"))),
        Opt(UnitRegex("years", <<Lit("y")>>)),
        Opt(UnitRegex("days", <<Lit("d")>>)),
        Opt(UnitRegex("hours", <<Lit("h")>>)),
        Opt(UnitRegex("minutes", <<Lit("m"), NotAhead({"s"})>>)),
        Opt(UnitRegex("seconds", <<Lit("s")>>)),
        Opt(UnitRegex("milliseconds", <<Lit("m"), Lit("s")>>)),
        Opt(UnitRegex("microseconds", <<Lit("u"), Lit("s")>>)),
        Eol>>)

UnitGroups ==
  {"isNegative", "years", "days", "hours", "minutes", "seconds", "milliseconds",
   "microseconds"}

\* ^(?<sign>([+-]?))(?<int>(\d+))(?<decimal>\.(\d+))?$
BareNumberRegex ==
  Cat(<<Bol, Grp("sign", Opt(Sign)), Grp("int", Plus(Digit)),
        Opt(Grp("decimal", Cat(<<Lit("."), Plus(Digit)>>))), Eol>>)

Units == {"days", "hours", "minutes", "seconds", "milliseconds", "microseconds"}

InvalidTimeFormat ==
  "Invalid time format: Must be of format:\n    1y 3d 2h 24m 35s 18ms 70us,\n    [+/-]DOYThh:mm:ss[.sss],\n    duration\n    "

Returned(value) == [threw |-> FALSE, value |-> value]

Thrown(message) == [threw |-> TRUE, message |-> message]

\* The third form of parseDurationString: the switch that shifts the number
\* and its decimals into the fields of the given units.
ShiftByUnits(number, decimalNum, units) ==
  [microsecond |-> CASE units = "microseconds" -> number
                     [] units = "milliseconds" -> decimalNum
                     [] OTHER -> Zero,
   millisecond |-> CASE units = "milliseconds" -> number
                     [] units = "seconds" -> decimalNum
                     [] OTHER -> Zero,
   second      |-> CASE units = "seconds" -> number
                     [] units = "minutes" -> decimalNum
                     [] OTHER -> Zero,
   minute      |-> CASE units = "minutes" -> number
                     [] units = "hours" -> decimalNum
                     [] OTHER -> Zero,
   hour        |-> CASE units = "hours" -> number
                     [] units = "days" -> decimalNum
                     [] OTHER -> Zero,
   day         |-> CASE units = "days" -> number
                     [] OTHER -> Zero,
   year        |-> Zero]

\* Normalize microseconds
NormalizeMicroseconds(d) ==
  [d EXCEPT !.millisecond = NumAdd(@, NumFloorDiv(d.microsecond, 1000000)),
            !.microsecond = NumMod(@, 1000000)]

\* Normalize milliseconds and seconds
NormalizeMilliseconds(d) ==
  [d EXCEPT !.second = NumAdd(@, NumFloorDiv(d.millisecond, 1000)),
            !.millisecond = NumMod(@, 1000)]

\* Normalize seconds and minutes
NormalizeSeconds(d) ==
  [d EXCEPT !.minute = NumAdd(@, NumFloorDiv(d.second, 60)),
            !.second = NumMod(@, 60)]

\* Normalize minutes and hours
NormalizeMinutes(d) ==
  [d EXCEPT !.hour = NumAdd(@, NumFloorDiv(d.minute, 60)),
            !.minute = NumMod(@, 60)]

\* Normalize hours and days
NormalizeHours(d) ==
  [d EXCEPT !.day = NumAdd(@, NumFloorDiv(d.hour, 24)),
            !.hour = NumMod(@, 24)]

\* Normalize days and years
NormalizeDays(d) ==
  [d EXCEPT !.year = NumAdd(@, NumFloorDiv(d.day, 365)),
            !.day = NumMod(@, 365)]

NormalizedDuration(d, sign) ==
  Duration(d.year, d.day, d.hour, d.minute, d.second, d.millisecond, d.microsecond,
           sign # <<>> /\ sign # <<"+">>)

BareNumberDuration(matches, units) ==
  NormalizedDuration(
    NormalizeDays(NormalizeHours(NormalizeMinutes(NormalizeSeconds(NormalizeMilliseconds(
      NormalizeMicroseconds(
        ShiftByUnits(Num(parseInt(Group(matches, "int", <<"0">>))),
                     parseFloat(Group(matches, "decimal", <<"0">>)),
                     units))))))),
    Group(matches, "sign", <<>>))

\* A variant of the first form that carries whole milliseconds out of the
\* microseconds.
UnitSuffixedCarried(matches) ==
  Duration(parseFloat(Group(matches, "years", <<"0">>)),
           parseFloat(Group(matches, "days", <<"0">>)),
           parseFloat(Group(matches, "hours", <<"0">>)),
           parseFloat(Group(matches, "minutes", <<"0">>)),
           parseFloat(Group(matches, "seconds", <<"0">>)),
           NumAdd(parseFloat(Group(matches, "milliseconds", <<"0">>)),
                  NumFloorDiv(parseFloat(Group(matches, "microseconds", <<"0">>)), 1000)),
           NumMod(parseFloat(Group(matches, "microseconds", <<"0">>)), 1000),
           Group(matches, "isNegative", <<>>) # <<>>)

\* The first form of parseDurationString: the fields as written.
UnitSuffixedDuration(matches) ==
  Duration(parseFloat(Group(matches, "years", <<"0">>)),
           parseFloat(Group(matches, "days", <<"0">>)),
           parseFloat(Group(matches, "hours", <<"0">>)),
           parseFloat(Group(matches, "minutes", <<"0">>)),
           parseFloat(Group(matches, "seconds", <<"0">>)),
           parseFloat(Group(matches, "milliseconds", <<"0">>)),
           parseFloat(Group(matches, "microseconds", <<"0">>)),
           Group(matches, "isNegative", <<>>) # <<>>)

\* A variant that returns null where the source throws.
BareNumberOrNull(matches, units) ==
  IF matches.found THEN Returned(BareNumberDuration(matches, units))
  ELSE Returned(Null)

\* parseDurationString after its second form failed: the bare number, or
\* the error.
BareNumberOrThrow(matches, units) ==
  IF matches.found THEN Returned(BareNumberDuration(matches, units))
  ELSE Thrown(InvalidTimeFormat)

\* parseDurationString after its first form failed: what parseDoyOrYmdTime
\* returned, if it returned something.
DurationTimeOrNumber(durationTime, durationString, units) ==
  IF durationTime # Null THEN Returned(durationTime)
  ELSE BareNumberOrThrow(Exec(BareNumberRegex, {"sign", "int", "decimal"}, durationString), units)

UnitSuffixedOrOther(matches, durationString, units) ==
  IF matches.found THEN Returned(UnitSuffixedDuration(matches))
  ELSE DurationTimeOrNumber(parseDoyOrYmdTime(durationString, defaultNumDecimals),
                            durationString, units)

parseDurationString(durationString, units) ==
  UnitSuffixedOrOther(Exec(fullValidDurationRegex, UnitGroups, durationString),
                      durationString, units)

----------------------------------------------------------------------------
(* JavaScript dates.  A time value (milliseconds since the Unix epoch) is  *)
(* held as the day number and the milliseconds within the day, which are   *)
(* ECMAScript's Day(t) and TimeWithinDay(t).                               *)

oneDay == 86400000

\* ECMAScript's DayFromYear
DayFromYear(y) ==
  365 * (y - 1970) + ((y - 1969) \div 4) - ((y - 1901) \div 100) + ((y - 1601) \div 400)

\* ECMAScript's YearFromTime, on the day number
YearFromDay(day) ==
  LET guess == 1970 + (day \div 365)
  IN  CHOOSE y \in (guess - 2)..(guess + 1) : DayFromYear(y) <= day /\ day < DayFromYear(y + 1)

TimeValue(day, ms) == [day |-> day + (ms \div oneDay), ms |-> ms % oneDay]

\* Date.UTC(year, 0, date, hours, minutes, seconds, ms): a year from 0 to
\* 99 is taken as 1900 + year.
DateUTC(year, date, hours, minutes, seconds, ms) ==
  LET full == IF 0 <= year /\ year <= 99 THEN 1900 + year ELSE year
  IN  TimeValue(DayFromYear(full) + date - 1,
                hours * 3600000 + minutes * 60000 + seconds * 1000 + ms)

getUTCFullYear(date) == YearFromDay(date.day)
getUTCHours(date) == date.ms \div 3600000
getUTCMinutes(date) == (date.ms \div 60000) % 60
getUTCSeconds(date) == (date.ms \div 1000) % 60
getUTCMilliseconds(date) == date.ms % 1000
\* Local time differs from UTC by whole minutes.
getMilliseconds(date) == getUTCMilliseconds(date)

----------------------------------------------------------------------------
(* src/src/time.ts: day-of-year timestamps.                                *)

\* A variant that counts the days from January 1st, not from the day before.
getDoyFromNewYear(date) ==
  LET start == DateUTC(getUTCFullYear(date), 1, 0, 0, 0, 0)
  IN  (date.day - start.day) + ((date.ms - start.ms) \div oneDay)

getDoy(date) ==
  LET start == DateUTC(getUTCFullYear(date), 0, 0, 0, 0, 0)
  IN  (date.day - start.day) + ((date.ms - start.ms) \div oneDay)

getDoyTimeComponents(date) ==
  [doy   |-> padStart(IntToText(getDoy(date)), 3, "0"),
   hours |-> padStart(IntToText(getUTCHours(date)), 2, "0"),
   mins  |-> padStart(IntToText(getUTCMinutes(date)), 2, "0"),
   msecs |-> padStart(IntToText(getUTCMilliseconds(date)), 3, "0"),
   secs  |-> padStart(IntToText(getUTCSeconds(date)), 2, "0"),
   year  |-> IntToText(getUTCFullYear(date))]

DoyTimestamp(c, withMsecs) ==
  c.year \o <<"-">> \o c.doy \o <<"T">> \o c.hours \o <<":">> \o c.mins \o <<":">> \o c.secs
  \o (IF withMsecs THEN <<".">> \o c.msecs ELSE <<>>)

getDoyTime(date, includeMsecs) ==
  DoyTimestamp(getDoyTimeComponents(date), includeMsecs /\ getMilliseconds(date) > 0)

\* /(\d{4})-(\d{3})T(\d{2}):(\d{2}):(\d{2})\.?(\d{3})?/
UnixEpochRegex ==
  Cat(<<Grp("1", DigitsN(4)), Lit("-"), Grp("2", DigitsN(3)), Lit("T"), Grp("3", DigitsN(2)),
        Lit(":"), Grp("4", DigitsN(2)), Lit(":"), Grp("5", DigitsN(2)), Opt(Lit(".")),
        Opt(Grp("6", DigitsN(3)))>>)

UnixEpochOfMatch(match) ==
  IF match.found
  THEN DateUTC(parseInt(match.caps["1"]), parseInt(match.caps["2"]),
               parseInt(match.caps["3"]), parseInt(match.caps["4"]),
               parseInt(match.caps["5"]), parseInt(Group(match, "6", <<"0">>)))
  ELSE TimeValue(0, 0)

getUnixEpochTime(doyTimestamp) ==
  UnixEpochOfMatch(Exec(UnixEpochRegex, {"1", "2", "3", "4", "5", "6"}, doyTimestamp))

\* What the template gives for an object without the fields of a duration:
\* String(undefined) and String(NaN).
NotADurationDoy ==
  <<"u", "n", "d", "e", "f", "i", "n", "e", "d", "-", "N", "a", "N", "T",
    "u", "n", "d", "e", "f", "i", "n", "e", "d", ":",
    "u", "n", "d", "e", "f", "i", "n", "e", "d", ":",
    "u", "n", "d", "e", "f", "i", "n", "e", "d", ".", "N", "a", "N">>

convertDurationToDoy(duration) ==
  IF duration.kind # "duration" THEN NotADurationDoy
  ELSE (IF duration.years = Zero THEN <<"1", "9", "7", "0">>
        ELSE padStart(NumToText(duration.years), 4, "0"))
       \o <<"-">> \o padStart(IntToText(Max2(1, NumFloor(duration.days))), 3, "0")
       \o <<"T">> \o padStart(NumToText(duration.hours), 2, "0")
       \o <<":">> \o padStart(NumToText(duration.minutes), 2, "0")
       \o <<":">> \o padStart(NumToText(duration.seconds), 2, "0")
       \o <<".">> \o padStart(NumToText(NumMulInt(duration.milliseconds, 1000)), 3, "0")

\* The text getBalancedDuration builds from the duration and the parsed
\* balanced timestamp.
BalancedText(isNegative, hasDays, parsedBalancedTime) ==
  (IF isNegative THEN <<"-">> ELSE <<>>)
  \o (IF hasDays \/ parsedBalancedTime.doy > 1
      THEN padStart(IntToText(parsedBalancedTime.doy - (IF hasDays THEN 0 ELSE 1)), 3, "0")
           \o <<"T">>
      ELSE <<>>)
  \o padStart(IntToText(parsedBalancedTime.hour), 2, "0")
  \o <<":">> \o padStart(IntToText(parsedBalancedTime.min), 2, "0")
  \o <<":">> \o padStart(IntToText(parsedBalancedTime.sec), 2, "0")
  \o <<".">> \o padStart(NumToText(parsedBalancedTime.ms), 3, "0")

\* An object that is no duration has no days and no isNegative: undefined
\* is neither > 0 nor truthy.
BalanceDuration(duration) ==
  BalancedText(duration.kind = "duration" /\ duration.isNegative,
               duration.kind = "duration" /\ NumLess(Zero, duration.days),
               parseDoyOrYmdTime(getDoyTime(getUnixEpochTime(convertDurationToDoy(duration)), TRUE),
                                 defaultNumDecimals))

BalanceParsed(parsed) ==
  IF parsed.threw THEN parsed ELSE Returned(BalanceDuration(parsed.value))

getBalancedDuration(time) == BalanceParsed(parseDurationString(time, "seconds"))

----------------------------------------------------------------------------
(* The inputs of the time module.  Each text is drawn together with the    *)
(* way it was written (arg.written), which is what the properties compare  *)
(* the results with.                                                       *)

\* A number as it is written: its text and its value.
Written(text, m, e) == [text |-> text, num |-> [m |-> m, e |-> e]]

WrittenNat(n, width) == Written(padStart(NatToText(n), width, "0"), n, 0)

\* '2022-012T12:34:56.789'
AbsoluteExample ==
  <<"2", "0", "2", "2", "-", "0", "1", "2", "T", "1", "2", ":", "3", "4", ":", "5", "6",
    ".", "7", "8", "9">>

\* '12:34:56.789'
TimeOfDayExample == <<"1", "2", ":", "3", "4", ":", "5", "6", ".", "7", "8", "9">>

\* The values written before a unit suffix, and the space before them.
UnitValues ==
  {[value |-> Written(<<"1">>, 1, 0), space |-> <<>>],
   [value |-> Written(<<"1">>, 1, 0), space |-> <<" ">>],
   [value |-> Written(<<"3", "0">>, 30, 0), space |-> <<>>],
   [value |-> Written(<<"3", "0">>, 30, 0), space |-> <<" ">>],
   [value |-> Written(<<"+", "1", ".", "5">>, 15, 1), space |-> <<" ">>],
   [value |-> Written(<<"-", "9", "0">>, -90, 0), space |-> <<>>]}

UnitNames ==
  <<"years", "days", "hours", "minutes", "seconds", "milliseconds", "microseconds">>

UnitSuffix ==
  [years |-> <<"y">>, days |-> <<"d">>, hours |-> <<"h">>, minutes |-> <<"m">>,
   seconds |-> <<"s">>, milliseconds |-> <<"m", "s">>, microseconds |-> <<"u", "s">>]

FieldText(f) == f.space \o f.value.text \o UnitSuffix[UnitNames[f.unit]]

RECURSIVE FieldsText(_)
FieldsText(fs) == IF fs = <<>> THEN <<>> ELSE FieldText(fs[1]) \o FieldsText(Tail(fs))

RECURSIVE Ascending(_)
Ascending(set) ==
  IF set = {} THEN <<>>
  ELSE LET least == CHOOSE x \in set : \A y \in set : x <= y
       IN  <<least>> \o Ascending(set \ {least})

\* The fields of the units chosen, in the order y d h m s ms us.
FieldsInOrder(units, how) ==
  [k \in 1..Cardinality(units) |->
     [unit |-> Ascending(units)[k], value |-> how[Ascending(units)[k]].value,
      space |-> how[Ascending(units)[k]].space]]

OrderedFieldSeqs ==
  UNION {{FieldsInOrder(units, how) : how \in [units -> UnitValues]} :
           units \in {u \in SUBSET (1..7) : Cardinality(u) <= MaxFields}}

\* A '-' that opens the text is the negation marker, so the first value of
\* a text without marker is not written with one.
Unambiguous(neg, fs) ==
  neg = <<>> /\ fs # <<>> => ~(fs[1].space = <<>> /\ fs[1].value.text[1] = "-")

\* Unit-suffixed texts: the fields in the order y d h m s ms us.
UnitSuffixedArgs ==
  {[durationString |-> x[1] \o FieldsText(x[2]), units |-> "microseconds",
    written |-> [form |-> "unit", neg |-> x[1] # <<>>, fields |-> x[2]]] :
     x \in {y \in {<<>>, <<"-">>} \X OrderedFieldSeqs : Unambiguous(y[1], y[2])}}

\* "<a>us" for the microsecond counts a from one million on.
MicrosecondCounts ==
  {1000000 * j + 1000 * r + q : j \in {1, 59, 60, MaxMega}, r \in {0, 1, 999}, q \in {0, 1, 999}}

MicrosecondArgs ==
  {[durationString |-> NatToText(x[1]) \o <<"u", "s">>, units |-> x[2],
    written |-> [form |-> "unit", neg |-> FALSE,
                 fields |-> <<[unit |-> 7, value |-> WrittenNat(x[1], 0), space |-> <<>>]>>]] :
     x \in MicrosecondCounts \X Units}

\* Two fields out of order, or a unit written twice: no form of a duration.
OutOfOrderFields ==
  {<<[unit |-> x[1], value |-> x[3].value, space |-> <<>>],
     [unit |-> x[2], value |-> x[4].value, space |-> x[4].space]>> :
     x \in {y \in (1..7) \X (1..7) \X UnitValues \X UnitValues : y[1] >= y[2]}}

OutOfOrderArgs ==
  {[durationString |-> FieldsText(fs), units |-> "microseconds", written |-> [form |-> "none"]] :
     fs \in OutOfOrderFields}

\* Day-of-year duration tags: [sign][DDD][T]hh:mm:[ss][.fraction]
DoySigns == {<<>>, <<"-">>, <<"+">>}
DoyDays == {WrittenNat(d, 3) : d \in 0..MaxDays}
DoyHours == {WrittenNat(h, 2) : h \in {0, 23, 24}}
DoyMinutes == {WrittenNat(m, 2) : m \in {0, 45, 60}}
DoySeconds == {WrittenNat(x, 2) : x \in {0, 59, 60}}
DoyFractions == {WrittenNat(10, 3), WrittenNat(100, 3), WrittenNat(1, 1), WrittenNat(0, 3)}

Absent == Written(<<>>, 0, 0)

DoyTags ==
  [sign : DoySigns, doy : DoyDays \cup {Absent}, t : {<<>>, <<"T">>}, hr : DoyHours,
   mins : DoyMinutes, secs : DoySeconds \cup {Absent}, ms : DoyFractions \cup {Absent}]

DoyTagText(w) ==
  w.sign \o w.doy.text \o w.t \o w.hr.text \o <<":">> \o w.mins.text \o <<":">> \o w.secs.text
  \o (IF w.ms = Absent THEN <<>> ELSE <<".">> \o w.ms.text)

DoyTagArgs ==
  {[durationString |-> DoyTagText(w), units |-> "microseconds",
    written |-> [form |-> "doy", tag |-> w]] : w \in DoyTags}

\* Bare numbers, in every default unit.
BareInts ==
  {WrittenNat(0, 1), WrittenNat(90, 2), WrittenNat(999, 3), WrittenNat(1000, 4),
   WrittenNat(86400, 5), WrittenNat(1000000, 7), WrittenNat(31536000, 8)}
BareDecimals == {Absent, Written(<<".", "5">>, 5, 1), Written(<<".", "4", "5", "6">>, 456, 3)}

BareNumbers == [sign : DoySigns, int : BareInts, decimal : BareDecimals]

BareNumberArgs ==
  {[durationString |-> w.sign \o w.int.text \o w.decimal.text, units |-> units,
    written |-> [form |-> "bare", number |-> w]] : <<w, units>> \in BareNumbers \X Units}

\* Calendar timestamps: YYYY-DDD or YYYY-MM-DD with a partial time of day.
CalendarTexts ==
  {<<"2", "0", "2", "4", "-", "0", "0", "1">>,
   <<"2", "0", "2", "4", "-", "1">>,
   <<"2", "0", "2", "4", "-", "0", "1", "-", "1", "5">>,
   <<"2", "0", "2", "4", "-", "1", "2", "-", "3", "1", "T", "2", "3">>,
   <<"2", "0", "2", "4", "-", "0", "0", "1", "t", "0", "1", ":", "0", "2">>,
   <<"2", "0", "2", "4", "-", "3", "6", "6", "T", "0", "1", ":", "0", "2", ":", "0", "3">>,
   <<"2", "0", "2", "4", "-", "0", "0", "1", "T", "0", "1", ":", "0", "2", ":", "0", "3", ".", "5">>,
   AbsoluteExample}

CalendarArgs ==
  {[durationString |-> t, units |-> units, written |-> [form |-> "calendar"]] :
     <<t, units>> \in CalendarTexts \X {"microseconds", "seconds"}}

\* Texts of no form.
MalformedTexts ==
  {<<"x">>, <<"1", "h", "3", "0">>, <<"1", " ", "h">>, <<"h">>, <<"1", "m", "i", "n">>,
   <<"1", ":", "2", ":", "3">>, <<"0", "0", ":", "4", "5">>, <<"0", "0", "2", "T">>,
   <<"T">>, <<" ", "5">>, <<"5", " ">>, <<"1", ".", "2", ".", "3">>, <<"5", ".">>,
   <<".", "5">>, <<"-", "-", "5">>, <<"1", "e", "5">>, <<"0", "0", "-", "4", "5", ":", "0", "0">>,
   <<"2", "0", "2", "4", "-", "0", "0", "1", "T">>,
   <<"2", "0", "2", "4", "-", "0", "0", "1", "T", "0", "1", ":", "6", "0">>,
   <<"2", "0", "2", "4", "-", "0", "0", "1", " ", "0", "1", ":", "0", "0">>,
   <<"-", "0", "0", "2", "T", "0", "0", ":", "4", "5", ":", "0", "0", ".", "0", "1", "0", "s">>,
   <<"1", "h", " ", "3", "0", "m", ",">>}

MalformedArgs ==
  {[durationString |-> t, units |-> units, written |-> [form |-> "none"]] :
     <<t, units>> \in MalformedTexts \X {"microseconds", "seconds"}}

\* Relative-time strings for getBalancedDuration.
BalancedArgs == {[time |-> DoyTagText(w), written |-> w] : w \in DoyTags}

\* validateTime: a core, with or without a character before and after it.
Junk == {<<>>, <<"x">>, <<" ">>, <<"\n">>}

NumberCores ==
  {sign \o int \o frac :
     <<sign, int, frac>> \in DoySigns \X {<<"5">>, <<"0", "1", "2">>}
                             \X {<<>>, <<".", "5">>, <<".", "0", "1", "0">>}}

AbsoluteCores == {AbsoluteExample, SubSeq(AbsoluteExample, 1, 17)}

OtherCores ==
  {<<>>, <<".">>, <<"5", ".">>, <<"1", ".", "2", ".", "3">>, <<"-", "-", "5">>,
   <<"+">>, <<"5", "-">>, TimeOfDayExample, SubSeq(AbsoluteExample, 1, 16),
   SubSeq(AbsoluteExample, 2, 21), SubSeq(AbsoluteExample, 1, 20),
   SubSeq(AbsoluteExample, 1, 18), SubSeq(AbsoluteExample, 1, 8) \o <<" ">> \o SubSeq(AbsoluteExample, 10, 21)}

Cores ==
  {[form |-> "number", text |-> c] : c \in NumberCores}
  \cup {[form |-> "absolute", text |-> c] : c \in AbsoluteCores}
  \cup {[form |-> "other", text |-> c] : c \in OtherCores}

ValidateTimeArgs ==
  {[time |-> pre \o core.text \o post, type |-> type,
    written |-> [form |-> core.form, before |-> pre, after |-> post]] :
     <<pre, core, post, type>> \in Junk \X Cores \X Junk \X TimeTypes}

\* Instants: every day of the years drawn, at some times of the day.
TimesOfDay == {0, 1, 999, 1000, 43200500, 86399999}

Instants ==
  {TimeValue(day, ms) :
     <<day, ms>> \in (DayFromYear(1969)..(DayFromYear(1971 + MaxYearOffset) - 1)) \X TimesOfDay}

DoyTimeArgs == [date : Instants, includeMsecs : BOOLEAN]

----------------------------------------------------------------------------
(* The state machine of the time module: a call, then its result.          *)

NotCalled == [threw |-> FALSE]

Init ==
  /\ pc = "call"
  /\ ret = NotCalled
  /\ \/ fn = "validateTime" /\ arg \in ValidateTimeArgs
     \/ fn = "parseDurationString" /\ arg \in UnitSuffixedArgs
     \/ fn = "parseDurationString" /\ arg \in MicrosecondArgs
     \/ fn = "parseDurationString" /\ arg \in OutOfOrderArgs
     \/ fn = "parseDurationString" /\ arg \in DoyTagArgs
     \/ fn = "parseDurationString" /\ arg \in BareNumberArgs
     \/ fn = "parseDurationString" /\ arg \in CalendarArgs
     \/ fn = "parseDurationString" /\ arg \in MalformedArgs
     \/ fn = "getBalancedDuration" /\ arg \in BalancedArgs
     \/ fn = "getDoyTime" /\ arg \in DoyTimeArgs

ValidateTime ==
  /\ pc = "call" /\ fn = "validateTime"
  /\ ret' = Returned(validateTime(arg.time, arg.type))
  /\ pc' = "done"
  /\ UNCHANGED <<fn, arg>>

ParseDurationString ==
  /\ pc = "call" /\ fn = "parseDurationString"
  /\ ret' = parseDurationString(arg.durationString, arg.units)
  /\ pc' = "done"
  /\ UNCHANGED <<fn, arg>>

GetBalancedDuration ==
  /\ pc = "call" /\ fn = "getBalancedDuration"
  /\ ret' = getBalancedDuration(arg.time)
  /\ pc' = "done"
  /\ UNCHANGED <<fn, arg>>

GetDoyTime ==
  /\ pc = "call" /\ fn = "getDoyTime"
  /\ ret' = Returned(getDoyTime(arg.date, arg.includeMsecs))
  /\ pc' = "timestamp"
  /\ UNCHANGED <<fn, arg>>

\* The timestamp is handed back to getUnixEpochTime.
GetUnixEpochTime ==
  /\ pc = "timestamp" /\ fn = "getDoyTime"
  /\ ret' = Returned(getUnixEpochTime(ret.value))
  /\ pc' = "done"
  /\ UNCHANGED <<fn, arg>>

Next ==
  \/ ValidateTime
  \/ ParseDurationString
  \/ GetBalancedDuration
  \/ GetDoyTime
  \/ GetUnixEpochTime

Spec == Init /\ [][Next]_vars

----------------------------------------------------------------------------
(* The properties.                                                         *)

Called(name) == fn = name /\ pc = "done"

AllZero ==
  [years |-> Zero, days |-> Zero, hours |-> Zero, minutes |-> Zero, seconds |-> Zero,
   milliseconds |-> Zero, microseconds |-> Zero]

FieldsOf(duration) == [u \in DOMAIN AllZero |-> duration[u]]

\* The text is "<a>us" for a count a of at least one million.
IsMicrosecondCount ==
  /\ arg.written.form = "unit"
  /\ ~arg.written.neg
  /\ Len(arg.written.fields) = 1
  /\ arg.written.fields[1].unit = 7
  /\ arg.written.fields[1].space = <<>>
  /\ arg.written.fields[1].value.text = NatToText(arg.written.fields[1].value.num.m)
  /\ arg.written.fields[1].value.num.m >= 1000000

MicrosecondCount == arg.written.fields[1].value.num.m

\* One field below a limit, as a number.
Below(x, limit) == NumLess(x, Num(limit)) /\ ~NumLess(x, Zero)

IsFullRelativeTime ==
  /\ arg.written.doy # Absent /\ arg.written.t = <<"T">>
  /\ arg.written.secs # Absent /\ arg.written.ms # Absent
  /\ Len(arg.written.ms.text) = 3

\* The fields of a text [-]DDDThh:mm:ss.mmm or [-]hh:mm:ss.mmm, by position.
TwoDigits(t, k) == 10 * DigitVal(t[k]) + DigitVal(t[k + 1])

ThreeDigits(t, k) == 100 * DigitVal(t[k]) + TwoDigits(t, k + 1)

ClockFields(t) ==
  [hours |-> TwoDigits(t, 1), minutes |-> TwoDigits(t, 4), seconds |-> TwoDigits(t, 7),
   milliseconds |-> ThreeDigits(t, 10)]

IsClock(t) ==
  /\ Len(t) = 12
  /\ \A k \in {1, 2, 4, 5, 7, 8, 10, 11, 12} : t[k] \in DigitChars
  /\ t[3] = ":" /\ t[6] = ":" /\ t[9] = "."

IsBalancedText(t) ==
  \/ IsClock(t)
  \/ /\ Len(t) = 16 /\ t[4] = "T" /\ \A k \in 1..3 : t[k] \in DigitChars
     /\ IsClock(SubSeq(t, 5, 16))

BalancedFields(t) ==
  IF Len(t) = 16
  THEN [days |-> ThreeDigits(t, 1)] @@ ClockFields(SubSeq(t, 5, 16))
  ELSE [days |-> 0] @@ ClockFields(t)

Unsigned(t) == IF t # <<>> /\ t[1] \in {"-", "+"} THEN Tail(t) ELSE t

TotalSeconds(days, hours, minutes, seconds) ==
  ((days * 24 + hours) * 60 + minutes) * 60 + seconds

\* '-002T00:60:00.010' and '-002T01:00:00.010'
BalancedExampleIn ==
  <<"-", "0", "0", "2", "T", "0", "0", ":", "6", "0", ":", "0", "0", ".", "0", "1", "0">>

BalancedExampleOut ==
  <<"-", "0", "0", "2", "T", "0", "1", ":", "0", "0", ":", "0", "0", ".", "0", "1", "0">>

\* C3: getBalancedDuration re-expresses [sign]DDDThh:mm:ss.mmm in balanced
\* form: hours < 24, minutes < 60, seconds < 60, the same sign, the same total
\* duration and the same milliseconds; '-002T00:60:00.010' gives
\* '-002T01:00:00.010'.
C3_BalancedDuration ==
  Called("getBalancedDuration") /\ IsFullRelativeTime =>
    /\ ~ret.threw
    /\ IsBalancedText(Unsigned(ret.value))
    /\ (ret.value[1] = "-") = (arg.written.sign = <<"-">>)
    /\ BalancedFields(Unsigned(ret.value)).hours < 24
    /\ BalancedFields(Unsigned(ret.value)).minutes < 60
    /\ BalancedFields(Unsigned(ret.value)).seconds < 60
    /\ TotalSeconds(BalancedFields(Unsigned(ret.value)).days,
                    BalancedFields(Unsigned(ret.value)).hours,
                    BalancedFields(Unsigned(ret.value)).minutes,
                    BalancedFields(Unsigned(ret.value)).seconds)
         = TotalSeconds(arg.written.doy.num.m, arg.written.hr.num.m, arg.written.mins.num.m,
                        arg.written.secs.num.m)
    /\ BalancedFields(Unsigned(ret.value)).milliseconds = arg.written.ms.num.m
    /\ (arg.time = BalancedExampleIn => ret.value = BalancedExampleOut)

\* C4: getUnixEpochTime is the inverse of getDoyTime: the timestamp of an
\* instant x, zero or nonzero milliseconds, gives x back.
C4_UnixEpochInverse ==
  Called("getDoyTime") /\ arg.includeMsecs => ret.value = arg.date

\* The last instant but one of a leap year's day 366, with milliseconds,
\* went through both functions.
C4_Witness ==
  /\ Called("getDoyTime") /\ arg.includeMsecs
  /\ arg.date = TimeValue(DayFromYear(1973) - 1, 43200500)
  /\ ret.value = arg.date

\* C5: validateTime(text, kind) is true exactly when the whole text is of
\* the kind's form: YYYY-DDDThh:mm:ss[.mmm] for ABSOLUTE, a bare signed
\* decimal number for EPOCH_SIMPLE and RELATIVE_SIMPLE; a character before
\* or after the form makes it false.
C5_ValidateTimeWholeText ==
  Called("validateTime") /\ arg.type \in {"ABSOLUTE", "EPOCH_SIMPLE", "RELATIVE_SIMPLE"} =>
    ret.value = (/\ arg.written.before = <<>>
                 /\ arg.written.after = <<>>
                 /\ arg.written.form = (IF arg.type = "ABSOLUTE" THEN "absolute" ELSE "number"))

\* The number written for a unit, 0 when the unit is not written.
WrittenFor(fields, unit) ==
  IF \E k \in 1..Len(fields) : fields[k].unit = unit
  THEN fields[CHOOSE k \in 1..Len(fields) : fields[k].unit = unit].value.num
  ELSE Zero

FieldsAsWritten ==
  IF arg.written.form = "unit"
  THEN [years        |-> WrittenFor(arg.written.fields, 1),
        days         |-> WrittenFor(arg.written.fields, 2),
        hours        |-> WrittenFor(arg.written.fields, 3),
        minutes      |-> WrittenFor(arg.written.fields, 4),
        seconds      |-> WrittenFor(arg.written.fields, 5),
        milliseconds |-> WrittenFor(arg.written.fields, 6),
        microseconds |-> WrittenFor(arg.written.fields, 7)]
  ELSE [years        |-> Zero,
        days         |-> arg.written.tag.doy.num,
        hours        |-> arg.written.tag.hr.num,
        minutes      |-> arg.written.tag.mins.num,
        seconds      |-> arg.written.tag.secs.num,
        milliseconds |-> arg.written.tag.ms.num,
        microseconds |-> Zero]

UnitsUpward ==
  <<"microseconds", "milliseconds", "seconds", "minutes", "hours", "days", "years">>

PerNext == <<1000, 1000, 60, 60, 24, 365>>

UnitIndex(units) == CHOOSE k \in 1..6 : UnitsUpward[k] = units

\* The count n of the k-th unit, carried upward from there.
RECURSIVE CarriedFrom(_, _)
CarriedFrom(n, k) ==
  IF k = 7 THEN (UnitsUpward[7] :> Num(n))
  ELSE (UnitsUpward[k] :> Num(n % PerNext[k])) @@ CarriedFrom(n \div PerNext[k], k + 1)

\* The whole number n of the given units as a balanced duration.
BalancedFrom(n, units) == CarriedFrom(n, UnitIndex(units)) @@ AllZero

IsBareNumber == arg.written.form = "bare"

\* C11: a bare number parsed in a default unit has its integer part placed
\* in that unit and carried upward us -> ms -> s -> min -> h -> d -> y
\* (1000, 1000, 60, 60, 24, 365), so that microseconds < 1000, milliseconds
\* < 1000, seconds < 60, minutes < 60, hours < 24, days < 365 and a whole
\* number denotes the same total as the result; for every default unit.
C11_BareNumberCarried ==
  Called("parseDurationString") /\ IsBareNumber =>
    /\ ~ret.threw
    /\ ret.value.kind = "duration"
    /\ Below(ret.value.microseconds, 1000) /\ Below(ret.value.milliseconds, 1000)
    /\ Below(ret.value.seconds, 60) /\ Below(ret.value.minutes, 60)
    /\ Below(ret.value.hours, 24) /\ Below(ret.value.days, 365)
    /\ (arg.written.number.decimal = Absent =>
          FieldsOf(ret.value) = BalancedFrom(arg.written.number.int.num.m, arg.units))

\* C12: every duration returned by parseDurationString, whichever form the
\* text had, has its seven numeric fields at or above 0; the sign is carried
\* by isNegative alone.
C12_FieldsNonNegative ==
  Called("parseDurationString") /\ ~ret.threw /\ ret.value.kind = "duration" =>
    /\ \A u \in DOMAIN AllZero : ~NumLess(ret.value[u], Zero)
    /\ ret.value.isNegative \in BOOLEAN

----------------------------------------------------------------------------
(* src/src/seqJsonToSeqn.ts: the serializer.  A document is a record that  *)
(* has a field exactly when the JSON object has the property; an array is  *)
(* a sequence; an object whose keys are open (metadata) is the sequence of *)
(* its entries, in Object.entries order.  A value that may be of several   *)
(* types is a record of its typeof and, under the name of the type, what   *)
(* it is: [typeof |-> "number", number |-> 1].                             *)

Has(object, property) == property \in DOMAIN object

\* `${value}` for a string, a number or a boolean
TemplateText(value) ==
  CASE value.typeof = "number" -> NumToText(value.number)
    [] value.typeof = "boolean" -> (IF value.boolean THEN <<"t", "r", "u", "e">> ELSE <<"f", "a", "l", "s", "e">>)
    [] OTHER -> value.string

\* ./parse-utils quoteEscape: the text in double quotes, each double quote
\* in it behind a backslash.
RECURSIVE EscapeQuotes(_)
EscapeQuotes(t) ==
  IF t = <<>> THEN <<>>
  ELSE (IF Head(t) = "\"" THEN <<"\\", "\"">> ELSE <<Head(t)>>) \o EscapeQuotes(Tail(t))

quoteEscape(t) == <<"\"">> \o EscapeQuotes(t) \o <<"\"">>

\* JSON.stringify of a string
RECURSIVE JsonEscape(_)
JsonEscape(t) ==
  IF t = <<>> THEN <<>>
  ELSE (CASE Head(t) = "\"" -> <<"\\", "\"">>
          [] Head(t) = "\\" -> <<"\\", "\\">>
          [] Head(t) = "\n" -> <<"\\", "n">>
          [] Head(t) = "\t" -> <<"\\", "t">>
          [] OTHER -> <<Head(t)>>) \o JsonEscape(Tail(t))

JsonQuote(t) == <<"\"">> \o JsonEscape(t) \o <<"\"">>

RECURSIVE Spaces(_)
Spaces(n) == IF n = 0 THEN <<>> ELSE <<" ">> \o Spaces(n - 1)

\* JSON.stringify(value, null, gap), at the given indentation
RECURSIVE JsonStringifyAt(_, _, _)
JsonStringifyAt(value, gap, indent) ==
  CASE value.typeof = "null" -> <<"n", "u", "l", "l">>
    [] value.typeof = "boolean" -> (IF value.boolean THEN <<"t", "r", "u", "e">> ELSE <<"f", "a", "l", "s", "e">>)
    [] value.typeof = "number" -> NumToText(value.number)
    [] value.typeof = "string" -> JsonQuote(value.string)
    [] value.typeof = "array" ->
         IF value.items = <<>> THEN <<"[", "]">>
         ELSE <<"[", "\n">> \o Spaces(indent + gap)
              \o join([k \in 1..Len(value.items) |->
                         JsonStringifyAt(value.items[k], gap, indent + gap)],
                      <<",", "\n">> \o Spaces(indent + gap))
              \o <<"\n">> \o Spaces(indent) \o <<"]">>
    [] value.typeof = "object" ->
         IF value.entries = <<>> THEN <<"{", "}">>
         ELSE <<"{", "\n">> \o Spaces(indent + gap)
              \o join([k \in 1..Len(value.entries) |->
                         JsonQuote(value.entries[k].key) \o <<":", " ">>
                         \o JsonStringifyAt(value.entries[k].value, gap, indent + gap)],
                      <<",", "\n">> \o Spaces(indent + gap))
              \o <<"\n">> \o Spaces(indent) \o <<"}">>

JsonStringify(value, gap) == JsonStringifyAt(value, gap, 0)

\* JavaScript's ToBoolean of a JSON value
Truthy(value) ==
  CASE value.typeof = "null" -> FALSE
    [] value.typeof = "boolean" -> value.boolean
    [] value.typeof = "number" -> value.number # Zero
    [] value.typeof = "string" -> value.string # <<>>
    [] OTHER -> TRUE

\* object[key] of an object held as its entries: undefined when there is no
\* such key
HasKey(entries, key) == \E k \in 1..Len(entries) : entries[k].key = key

Lookup(entries, key) == entries[CHOOSE k \in 1..Len(entries) : entries[k].key = key].value

\* Array.prototype.filter
filter(array, Keep(_)) == SelectSeq(array, Keep)

seqJsonTimeToSequence(time) ==
  CASE time.type = "ABSOLUTE" -> <<"A">> \o (IF Has(time, "tag") THEN time.tag ELSE <<>>)
    [] time.type = "COMMAND_COMPLETE" -> <<"C">>
    [] time.type = "COMMAND_RELATIVE" -> <<"R">> \o (IF Has(time, "tag") THEN time.tag ELSE <<>>)
    [] time.type = "EPOCH_RELATIVE" -> <<"E">> \o (IF Has(time, "tag") THEN time.tag ELSE <<>>)
    [] OTHER -> <<>>

seqJsonBaseArgToSequence(argument) ==
  CASE argument.type = "string" -> quoteEscape(argument.value.string)
    [] OTHER -> TemplateText(argument.value)

\* The loop over one argument set of a repeat argument.
RECURSIVE RepeatArgSet(_, _)
RepeatArgSet(repeatArgSet, repeatResult) ==
  IF repeatArgSet = <<>> THEN repeatResult
  ELSE RepeatArgSet(Tail(repeatArgSet),
                    repeatResult \o <<" ">> \o seqJsonBaseArgToSequence(Head(repeatArgSet)))

\* A variant of the loop over the argument sets that trims nothing.
RECURSIVE RepeatArgSetsUntrimmed(_, _)
RepeatArgSetsUntrimmed(value, repeatResult) ==
  IF value = <<>> THEN repeatResult
  ELSE RepeatArgSetsUntrimmed(Tail(value), RepeatArgSet(Head(value).items, repeatResult))

\* The loop over the argument sets of a repeat argument: the result is
\* trimmed after each set.
RECURSIVE RepeatArgSets(_, _)
RepeatArgSets(value, repeatResult) ==
  IF value = <<>> THEN repeatResult
  ELSE RepeatArgSets(Tail(value), trim(RepeatArgSet(Head(value).items, repeatResult)))

\* The body of the loop over the arguments.
ArgToSequence(argument, result) ==
  trimEnd(result \o <<" ">>
          \o (IF argument.type = "repeat"
              THEN <<"[">> \o RepeatArgSets(argument.value.items, <<>>) \o <<"]">>
              ELSE seqJsonBaseArgToSequence(argument)))

RECURSIVE ArgsLoop(_, _)
ArgsLoop(args, result) ==
  IF args = <<>> THEN result ELSE ArgsLoop(Tail(args), ArgToSequence(Head(args), result))

ArgsResult(trimmed) == IF Len(trimmed) > 0 THEN <<" ">> \o trimmed ELSE <<>>

seqJsonArgsToSequence(args) == ArgsResult(trim(ArgsLoop(args, <<>>)))

ModelToSequence(model) ==
  <<"@", "M", "O", "D", "E", "L", " ">>
  \o (IF model.variable.typeof = "string" THEN quoteEscape(model.variable.string)
      ELSE <<"\"">> \o TemplateText(model.variable) \o <<"\"">>)
  \o <<" ">>
  \o (IF model.value.typeof = "string" THEN quoteEscape(model.value.string)
      ELSE TemplateText(model.value))
  \o <<" ">> \o quoteEscape(model.offset)

LinesWithNewline(text) == IF Len(text) > 0 THEN text \o <<"\n">> ELSE <<>>

seqJsonModelsToSequence(models) ==
  LinesWithNewline(join([k \in 1..Len(models) |-> ModelToSequence(models[k])], <<"\n">>))

MetadataEntryToSequence(entry) ==
  <<"@", "M", "E", "T", "A", "D", "A", "T", "A", " ">> \o quoteEscape(entry.key) \o <<" ">> \o JsonStringify(entry.value, 2)

seqJsonMetadataToSequence(metadata) ==
  LinesWithNewline(
    join([k \in 1..Len(metadata) |-> MetadataEntryToSequence(metadata[k])], <<"\n">>))

\* A text property that is there and not empty.
TruthyText(object, property) == Has(object, property) /\ object[property] # <<>>

RangeToSequence(range) == NumToText(range.min) \o <<".", ".", ".">> \o NumToText(range.max)

AllowableRanges(variable) ==
  IF Has(variable, "allowable_ranges")
  THEN <<" ", "\"">>
       \o join([k \in 1..Len(variable.allowable_ranges) |->
                  RangeToSequence(variable.allowable_ranges[k])], <<",">>)
       \o <<"\"">>
  ELSE <<>>

AllowableValues(variable, allowableRanges) ==
  IF Has(variable, "allowable_values")
  THEN <<" ">> \o (IF Len(allowableRanges) = 0 THEN <<"\"", "\"", " ">> ELSE <<>>)
       \o <<"\"">>
       \o join([k \in 1..Len(variable.allowable_values) |->
                  TemplateText(variable.allowable_values[k])], <<",">>)
       \o <<"\"">>
  ELSE <<>>

VariableToSequence(variable) ==
  variable.name
  \o (IF TruthyText(variable, "type") THEN <<" ">> \o variable.type ELSE <<>>)
  \o (IF TruthyText(variable, "enum_name") THEN <<" ">> \o variable.enum_name ELSE <<>>)
  \o AllowableRanges(variable)
  \o AllowableValues(variable, AllowableRanges(variable))

seqJsonVariableToSequence(variables, type) ==
  trim(<<"@">> \o type \o <<"_", "B", "E", "G", "I", "N", "\n">>
       \o join([k \in 1..Len(variables) |-> VariableToSequence(variables[k])], <<"\n">>))
  \o <<"\n", "@">> \o type \o <<"_", "E", "N", "D", "\n">>

seqJsonDescriptionToSequence(description) == <<" ", "#", " ">> \o description \o <<"\n">>

\* A part that is written when the property is there (and, for a text, not
\* empty), and is the empty text otherwise.
DescriptionOf(object) ==
  IF TruthyText(object, "description") THEN seqJsonDescriptionToSequence(object.description)
  ELSE <<>>

MetadataOf(object) ==
  IF Has(object, "metadata") THEN seqJsonMetadataToSequence(object.metadata) ELSE <<>>

ModelsOf(object) ==
  IF Has(object, "models") THEN seqJsonModelsToSequence(object.models) ELSE <<>>

ArgsOf(object) ==
  IF Has(object, "args") THEN seqJsonArgsToSequence(object.args) ELSE <<>>

\* A newline added whether or not the text ends with one.
WithNewlineAlways(text) == text \o <<"\n">>

\* "add a new line if one doesn't exist at the end"
WithNewline(text) == IF endsWith(text, <<"\n">>) THEN text ELSE text \o <<"\n">>

commandToString(step) ==
  WithNewline(seqJsonTimeToSequence(step.time) \o <<" ">> \o step.stem
              \o seqJsonArgsToSequence(step.args) \o DescriptionOf(step))
  \o MetadataOf(step) \o ModelsOf(step)

loadOrActivateToString(step) ==
  WithNewline(seqJsonTimeToSequence(step.time) \o <<" ">>
              \o <<"@">> \o (IF step.type = "activate" THEN <<"A", "C", "T", "I", "V", "A", "T", "E">> ELSE <<"L", "O", "A", "D">>)
              \o <<"(">> \o quoteEscape(step.sequence) \o <<")">>
              \o ArgsOf(step) \o DescriptionOf(step))
  \o (IF Has(step, "engine") THEN <<"@", "E", "N", "G", "I", "N", "E", " ">> \o NumToText(step.engine) \o <<"\n">> ELSE <<>>)
  \o (IF Has(step, "epoch") THEN <<"@", "E", "P", "O", "C", "H", " ">> \o quoteEscape(step.epoch) \o <<"\n">> ELSE <<>>)
  \o MetadataOf(step) \o ModelsOf(step)

groundToString(step) ==
  WithNewline(seqJsonTimeToSequence(step.time) \o <<" ">>
              \o <<"@">> \o (IF step.type = "ground_block" THEN <<"G", "R", "O", "U", "N", "D", "_", "B", "L", "O", "C", "K">>
                           ELSE <<"G", "R", "O", "U", "N", "D", "_", "E", "V", "E", "N", "T">>)
              \o <<"(">> \o quoteEscape(step.name) \o <<")">>
              \o ArgsOf(step) \o DescriptionOf(step))
  \o MetadataOf(step) \o ModelsOf(step)

\* The switch on the type of a step.
StepToString(step) ==
  CASE step.type = "command" -> commandToString(step)
    [] step.type \in {"activate", "load"} -> loadOrActivateToString(step)
    [] step.type \in {"ground_block", "ground_event"} -> groundToString(step)
    [] OTHER -> <<>>

StepsToString(steps) == Concat([k \in 1..Len(steps) |-> StepToString(steps[k])])

RequestTime(request) ==
  IF Has(request, "time") THEN seqJsonTimeToSequence(request.time)
  ELSE IF Has(request, "ground_epoch")
  THEN <<"G">>
       \o (IF Has(request.ground_epoch, "delta") THEN request.ground_epoch.delta ELSE <<>>)
       \o <<" ">>
       \o quoteEscape(IF Has(request.ground_epoch, "name") THEN request.ground_epoch.name
                      ELSE <<>>)
  ELSE <<>>

requestToString(request) ==
  WithNewline(RequestTime(request) \o <<" ">>
              \o <<"@", "R", "E", "Q", "U", "E", "S", "T", "_", "B", "E", "G", "I", "N", "(">> \o quoteEscape(request.name) \o <<")">>
              \o DescriptionOf(request))
  \o StepsToString(request.steps) \o <<"@", "R", "E", "Q", "U", "E", "S", "T", "_", "E", "N", "D", "\n">> \o MetadataOf(request)

immediateToString(icmd) ==
  WithNewline(icmd.stem \o seqJsonArgsToSequence(icmd.args) \o DescriptionOf(icmd))
  \o MetadataOf(icmd)

hardwareToString(hdw) == WithNewline(hdw.stem \o DescriptionOf(hdw)) \o MetadataOf(hdw)

\* A variant of the filter that keeps every key.
AnyKey(entry) == TRUE

\* The filter of the document's metadata: every key but 'lgo'.
NotLgo(entry) == entry.key # <<"l", "g", "o">>

\* What seqJsonToSeqn pushes, part by part.
IdPart(seqJson) == <<"@", "I", "D", " ", "\"">> \o seqJson.id \o <<"\"", "\n">>

ParametersPart(seqJson) ==
  IF Has(seqJson, "parameters")
  THEN seqJsonVariableToSequence(seqJson.parameters, <<"I", "N", "P", "U", "T", "_", "P", "A", "R", "A", "M", "S">>)
  ELSE <<>>

LocalsPart(seqJson) ==
  IF Has(seqJson, "locals") THEN seqJsonVariableToSequence(seqJson.locals, <<"L", "O", "C", "A", "L", "S">>)
  ELSE <<>>

MetadataPart(seqJson) ==
  IF Has(seqJson, "metadata") THEN seqJsonMetadataToSequence(filter(seqJson.metadata, NotLgo))
  ELSE <<>>

LoadAndGoPart(seqJson) ==
  IF HasKey(seqJson.metadata, <<"l", "g", "o">>) /\ Truthy(Lookup(seqJson.metadata, <<"l", "g", "o">>))
  THEN <<"\n", "@", "L", "O", "A", "D", "_", "A", "N", "D", "_", "G", "O">>
  ELSE <<>>

StepsPart(seqJson) ==
  IF Has(seqJson, "steps") THEN <<"\n">> \o StepsToString(seqJson.steps) ELSE <<>>

ImmediatePart(seqJson) ==
  IF Has(seqJson, "immediate_commands")
  THEN <<"\n">> \o <<"@", "I", "M", "M", "E", "D", "I", "A", "T", "E", "\n">>
       \o Concat([k \in 1..Len(seqJson.immediate_commands) |->
                    immediateToString(seqJson.immediate_commands[k])])
  ELSE <<>>

HardwarePart(seqJson) ==
  IF Has(seqJson, "hardware_commands")
  THEN <<"\n">> \o <<"@", "H", "A", "R", "D", "W", "A", "R", "E", "\n">>
       \o Concat([k \in 1..Len(seqJson.hardware_commands) |->
                    hardwareToString(seqJson.hardware_commands[k])])
  ELSE <<>>

RequestsPart(seqJson) ==
  IF Has(seqJson, "requests")
  THEN Concat([k \in 1..Len(seqJson.requests) |->
                 <<"\n">> \o requestToString(seqJson.requests[k])])
  ELSE <<>>

\* Reading a property of undefined.
TypeError == "TypeError: Cannot read properties of undefined (reading 'lgo')"

\* seqJson.metadata.lgo is read whether or not the document has metadata.
seqJsonToSeqn(seqJson) ==
  IF ~Has(seqJson, "metadata") THEN Thrown(TypeError)
  ELSE Returned(Concat(<<IdPart(seqJson), ParametersPart(seqJson), LocalsPart(seqJson),
                         MetadataPart(seqJson), LoadAndGoPart(seqJson), StepsPart(seqJson),
                         ImmediatePart(seqJson), HardwarePart(seqJson),
                         RequestsPart(seqJson)>>))

----------------------------------------------------------------------------
(* The documents that are serialized.                                      *)

\* A repeat argument that is drawn has at most this many argument sets.
MaxSets == 2

\* An argument set that is drawn has at most this many base arguments.
MaxSetLen == 2

JsonNull == [typeof |-> "null"]
JsonBoolean(boolean) == [typeof |-> "boolean", boolean |-> boolean]
JsonNumber(n) == [typeof |-> "number", number |-> Num(n)]
JsonString(string) == [typeof |-> "string", string |-> string]
JsonArray(items) == [typeof |-> "array", items |-> items]
JsonObject(entries) == [typeof |-> "object", entries |-> entries]

StringArgument(value) == [type |-> "string", value |-> JsonString(value)]
NumberArgument(value) == [type |-> "number", value |-> JsonNumber(value)]
BooleanArgument(value) == [type |-> "boolean", value |-> JsonBoolean(value)]
SymbolArgument(value) == [type |-> "symbol", value |-> JsonString(value)]
HexArgument(value) == [type |-> "hex", value |-> JsonString(value)]

\* A repeat argument: an array of argument sets, each an array of arguments.
RepeatArgument(sets) ==
  [type |-> "repeat", value |-> JsonArray([k \in 1..Len(sets) |-> JsonArray(sets[k])])]

Entry(key, value) == [key |-> key, value |-> value]

\* An object without properties.
Nothing == [property \in {} |-> property]

\* No property, or the property with one of the values.
Optional(property, values) == {Nothing} \cup {property :> v : v \in values}

\* The sequences of at most n elements of a set.
SeqsUpTo(set, n) == UNION {[1..k -> set] : k \in 0..n}

CommandComplete == [type |-> "COMMAND_COMPLETE"]

Command(time, stem, args) == [type |-> "command", time |-> time, stem |-> stem, args |-> args]

\* C NOOP
Noop == Command(CommandComplete, <<"N", "O", "O", "P">>, <<>>)

\* [[1,2],[3,4]] and [[1,2,3,4]]
RepeatExample ==
  <<<<NumberArgument(1), NumberArgument(2)>>, <<NumberArgument(3), NumberArgument(4)>>>>

RepeatExampleJoined ==
  <<<<NumberArgument(1), NumberArgument(2), NumberArgument(3), NumberArgument(4)>>>>

RepeatElements == {NumberArgument(1), StringArgument(<<"a", " ", "\"", "b", "\"">>)}

RepeatValues ==
  SeqsUpTo(SeqsUpTo(RepeatElements, MaxSetLen), MaxSets) \cup {RepeatExample, RepeatExampleJoined}

BaseArguments ==
  {StringArgument(<<"a", " ", "b">>), NumberArgument(-5), BooleanArgument(TRUE), SymbolArgument(<<"X">>),
   HexArgument(<<"0", "x", "F", "F">>)}

ArgsBefore == {<<>>, <<SymbolArgument(<<"X">>)>>}

ArgsAfter == {<<>>, <<BooleanArgument(FALSE)>>, <<RepeatArgument(<<<<NumberArgument(7)>>>>)>>}

ArgLists ==
  SeqsUpTo(BaseArguments, 2)
    \cup {before \o <<RepeatArgument(value)>> \o after :
            <<before, value, after>> \in ArgsBefore \X RepeatValues \X ArgsAfter}

\* One command and its arguments.
ArgsDocuments ==
  {[id |-> <<"s">>, metadata |-> <<>>, steps |-> <<Command(CommandComplete, <<"C", "M", "D">>, args)>>] :
     args \in ArgLists}

Lgo == <<"l", "g", "o">>

LgoValues ==
  {JsonBoolean(TRUE), JsonBoolean(FALSE), JsonNumber(0), JsonNumber(1), JsonString(<<>>),
   JsonString(<<"n", "o">>), JsonNull, JsonObject(<<>>)}

OtherValues ==
  {JsonString(<<"v", " ", "\"", "1", "\"">>),
   JsonObject(<<Entry(<<"k">>, JsonArray(<<JsonNumber(1), JsonNull>>)), Entry(<<"l">>, JsonArray(<<>>))>>)}

MetadataEntries ==
  {Entry(Lgo, value) : value \in LgoValues}
    \cup {Entry(key, value) : <<key, value>> \in { <<"a">>, <<"b">>} \X OtherValues}

DistinctKeys(entries) ==
  \A j, k \in 1..Len(entries) : entries[j].key = entries[k].key => j = k

\* The metadata objects: up to three keys, 'lgo' first, last, between or not
\* there.
Metadatas == {entries \in SeqsUpTo(MetadataEntries, 3) : DistinctKeys(entries)}

NoopWithMetadata ==
  Noop @@ [description |-> <<"n", "o", "t", "e">>, metadata |-> <<Entry(Lgo, JsonBoolean(TRUE))>>]

MetadataDocuments ==
  {[id |-> <<"s">>, metadata |-> metadata] @@ steps :
     <<metadata, steps>> \in
       Metadatas \X Optional("steps", {<<>>, <<Noop>>, <<NoopWithMetadata, Noop>>})}

Range(min, max) == [min |-> Num(min), max |-> Num(max)]

Variables ==
  {[name |-> <<"v">>] @@ type @@ enum @@ ranges @@ values :
     <<type, enum, ranges, values>> \in
       Optional("type", { <<"I", "N", "T">>, <<>>})
         \X Optional("enum_name", { <<"E">>})
         \X Optional("allowable_ranges", {<<>>, <<Range(0, 1)>>, <<Range(0, 1), Range(-5, 5)>>})
         \X Optional("allowable_values",
                     {<<>>, <<JsonNumber(1)>>, <<JsonNumber(1), JsonString(<<"o", "n">>)>>})}

VariableDocuments ==
  {[id |-> <<"s">>, metadata |-> <<>>, steps |-> <<Noop>>] @@ declared :
     declared \in {property :> <<variable>> :
                     <<property, variable>> \in {"parameters", "locals"} \X Variables}
                   \cup {[parameters |-> <<[name |-> <<"p">>, type |-> <<"U", "I", "N", "T">>]>>,
                          locals |-> <<[name |-> <<"l">>], [name |-> <<"m">>, type |-> <<"S", "T", "R", "I", "N", "G">>]>>]}}

\* C NOOP alone, with and without the document's optional fields.
NoopDocuments ==
  {[id |-> id, steps |-> <<Noop>>] @@ metadata @@ parameters @@ locals :
     <<id, metadata, parameters, locals>> \in
       { <<"s">>, <<"s", "e", "q", " ", "1">>}
         \X Optional("metadata", {<<>>, <<Entry(<<"a">>, JsonNumber(1))>>,
                                  <<Entry(Lgo, JsonBoolean(TRUE))>>,
                                  <<Entry(Lgo, JsonBoolean(FALSE))>>})
         \X Optional("parameters", {<<[name |-> <<"p">>, type |-> <<"I", "N", "T">>]>>})
         \X Optional("locals", {<<[name |-> <<"l">>]>>})}

Model == [variable |-> JsonString(<<"x">>), value |-> JsonNumber(1), offset |-> <<"0", "0", ":", "0", "0", ":", "0", "1">>]

Models ==
  {<<>>, <<Model>>,
   <<[Model EXCEPT !.value = JsonBoolean(FALSE)], [Model EXCEPT !.value = JsonString(<<"o", "n">>)]>>}

\* What a step may carry after its line.
Trailers ==
  {description @@ metadata @@ models :
     <<description, metadata, models>> \in
       Optional("description", { <<"n", "o", "t", "e">>, <<>>})
         \X Optional("metadata", {<<>>, <<Entry(Lgo, JsonBoolean(TRUE))>>})
         \X Optional("models", Models)}

Times ==
  {CommandComplete, [type |-> "ABSOLUTE", tag |-> AbsoluteExample],
   [type |-> "COMMAND_RELATIVE", tag |-> <<"0", "0", ":", "0", "0", ":", "0", "1">>], [type |-> "EPOCH_RELATIVE"]}

Steps ==
  {Command(time, <<"C", "M", "D">>, <<NumberArgument(1)>>) @@ trailer :
     <<time, trailer>> \in Times \X Trailers}
    \cup {[type |-> type, time |-> CommandComplete, sequence |-> <<"a", ".", "s", "e", "q">>]
            @@ args @@ engine @@ epoch @@ description :
            <<type, args, engine, epoch, description>> \in
              {"activate", "load"}
                \X Optional("args", {<<StringArgument(<<"a">>)>>})
                \X Optional("engine", {Num(2)})
                \X Optional("epoch", { <<"e">>})
                \X Optional("description", { <<"n", "o", "t", "e">>})}
    \cup {[type |-> type, time |-> CommandComplete, name |-> <<"g">>] @@ args @@ trailer :
            <<type, args, trailer>> \in
              {"ground_block", "ground_event"}
                \X Optional("args", {<<>>})
                \X {Nothing, [description |-> <<"n", "o", "t", "e">>], [models |-> <<Model>>]}}

ImmediateCommands ==
  {[stem |-> <<"I", "C", "M", "D">>, args |-> args] @@ description @@ metadata :
     <<args, description, metadata>> \in
       {<<>>, <<NumberArgument(1)>>}
         \X Optional("description", { <<"n", "o", "t", "e">>})
         \X Optional("metadata", {<<Entry(<<"a">>, JsonNumber(1))>>})}

HardwareCommands ==
  {[stem |-> <<"H", "D", "W">>] @@ description @@ metadata :
     <<description, metadata>> \in
       Optional("description", { <<"n", "o", "t", "e">>})
         \X Optional("metadata", {<<Entry(<<"a">>, JsonNumber(1))>>})}

Requests ==
  {[name |-> <<"r">>, steps |-> steps] @@ time @@ description @@ metadata :
     <<steps, time, description, metadata>> \in
       {<<>>, <<Noop>>, <<NoopWithMetadata, Noop>>}
         \X {Nothing, [time |-> CommandComplete],
             [ground_epoch |-> [delta |-> <<"+", "0", "0", ":", "0", "1", ":", "0", "0">>, name |-> <<"e", "p", "o", "c", "h">>]],
             [ground_epoch |-> [name |-> <<"e", "p", "o", "c", "h">>]], [ground_epoch |-> Nothing]}
         \X Optional("description", { <<"n", "o", "t", "e">>})
         \X Optional("metadata", {<<Entry(<<"a">>, JsonNumber(1))>>})}

\* The documents of steps, of sections and of requests.
BlockDocuments ==
  {[id |-> <<"s">>, metadata |-> <<>>] @@ section :
     section \in
       {[steps |-> steps] : steps \in {<<step>> : step \in Steps}
                                        \cup {<<step, Noop>> : step \in Steps}}
         \cup {[immediate_commands |-> <<icmd>>] : icmd \in ImmediateCommands}
         \cup {[steps |-> <<Noop>>, immediate_commands |-> <<icmd, icmd>>] :
                 icmd \in ImmediateCommands}
         \cup {[hardware_commands |-> <<hdw>>] : hdw \in HardwareCommands}
         \cup {[steps |-> <<Noop>>, hardware_commands |-> <<hdw, hdw>>] :
                 hdw \in HardwareCommands}
         \cup {[requests |-> <<request>>] : request \in Requests}
         \cup {[steps |-> <<Noop>>, immediate_commands |-> <<icmd>>,
                hardware_commands |-> <<hdw>>, requests |-> <<request, request>>] :
                 <<icmd, hdw, request>> \in
                   ImmediateCommands \X HardwareCommands
                     \X {request \in Requests : ~Has(request, "description")
                                                /\ request.steps = <<Noop>>}}}

Documents ==
  ArgsDocuments \cup MetadataDocuments \cup VariableDocuments \cup NoopDocuments
    \cup BlockDocuments

----------------------------------------------------------------------------
(* The state machine of the serializer: a document, then its text.         *)

InitSeqn ==
  /\ pc = "call"
  /\ ret = NotCalled
  /\ fn = "seqJsonToSeqn"
  /\ arg \in {[seqJson |-> seqJson] : seqJson \in Documents}

SeqJsonToSeqn ==
  /\ pc = "call" /\ fn = "seqJsonToSeqn"
  /\ ret' = seqJsonToSeqn(arg.seqJson)
  /\ pc' = "done"
  /\ UNCHANGED <<fn, arg>>

NextSeqn == SeqJsonToSeqn

SpecSeqn == InitSeqn /\ [][NextSeqn]_vars

----------------------------------------------------------------------------
(* The round trip through text.  The parser is built from seqn.grammar and *)
(* the extractor is not part of the sources; the extractor that is taken   *)
(* here is one that makes the serializer reproduce every text it wrote:    *)
(* of a text it returns a document that the serializer writes as that      *)
(* text.                                                                   *)

\* The ways to cut a sequence into consecutive non-empty parts.
RECURSIVE Splits(_)
Splits(s) ==
  UNION {{<<SubSeq(s, 1, k)>> \o rest :
            rest \in (IF k = Len(s) THEN {<<>>} ELSE Splits(SubSeq(s, k + 1, Len(s))))} :
           k \in 1..Len(s)}

RoundTripRepeats ==
  Splits(<<NumberArgument(1), NumberArgument(2), NumberArgument(3), NumberArgument(4)>>)
    \cup Splits(<<NumberArgument(1), NumberArgument(2)>>)
    \cup {<<<<NumberArgument(1)>>>>}

RoundTripDocuments ==
  {[id |-> <<"s">>, metadata |-> metadata,
    steps |-> <<Command(CommandComplete, stem, <<RepeatArgument(value)>>)>>] :
     <<metadata, stem, value>> \in
       {<<>>, <<Entry(<<"a">>, JsonNumber(1))>>, <<Entry(Lgo, JsonBoolean(TRUE))>>,
        <<Entry(Lgo, JsonBoolean(FALSE))>>}
         \X { <<"C", "M", "D">>, <<"N", "O", "O", "P">>} \X RoundTripRepeats}

\* Parsing and extracting: a document whose text it is.
seqnToSeqJson(seqn) ==
  CHOOSE seqJson \in RoundTripDocuments : seqJsonToSeqn(seqJson) = Returned(seqn)

InitRoundTrip ==
  /\ pc = "call"
  /\ ret = NotCalled
  /\ fn = "roundTrip"
  /\ arg \in {[seqJson |-> seqJson] : seqJson \in RoundTripDocuments}

Serialize ==
  /\ pc = "call" /\ fn = "roundTrip"
  /\ ret' = seqJsonToSeqn(arg.seqJson)
  /\ pc' = "text"
  /\ UNCHANGED <<fn, arg>>

ParseAndExtract ==
  /\ pc = "text" /\ fn = "roundTrip"
  /\ ret' = Returned(seqnToSeqJson(ret.value))
  /\ pc' = "done"
  /\ UNCHANGED <<fn, arg>>

NextRoundTrip == Serialize \/ ParseAndExtract

SpecRoundTrip == InitRoundTrip /\ [][NextRoundTrip]_vars

----------------------------------------------------------------------------
(* The properties of the serializer.                                       *)

\* C1: the round trip through text: parsing the text of a document D and
\* extracting a document from the result gives a document equal to D.
C1_RoundTrip ==
  fn = "roundTrip" /\ pc = "done" => ~ret.threw /\ ret.value = arg.seqJson

\* The document is C NOOP alone: one command step, without arguments,
\* description, metadata or models, and no other section.
IsNoopDocument(seqJson) ==
  /\ Has(seqJson, "steps") /\ seqJson.steps = <<Noop>>
  /\ ~Has(seqJson, "immediate_commands")
  /\ ~Has(seqJson, "hardware_commands")
  /\ ~Has(seqJson, "requests")

\* C8: of a document that is C NOOP alone, its other optional fields
\* (metadata too) there or not, seqJsonToSeqn returns a text that ends in
\* 'C NOOP' and one newline.
C8_EndsInNoop ==
  Called("seqJsonToSeqn") /\ IsNoopDocument(arg.seqJson) =>
    /\ ~ret.threw
    /\ endsWith(ret.value, <<"C", " ", "N", "O", "O", "P", "\n">>)
    /\ ~endsWith(ret.value, <<"\n", "\n">>)

\* The lines of a text: String.prototype.split('\n')
Newlines(text) == {k \in 1..Len(text) : text[k] = "\n"}

LineStarts(text) == {1} \cup {k + 1 : k \in Newlines(text)}

LineEnd(text, start) ==
  IF \E k \in Newlines(text) : k >= start
  THEN (CHOOSE k \in Newlines(text) : k >= start /\ \A j \in Newlines(text) : j >= start => k <= j) - 1
  ELSE Len(text)

NthStart(starts, n) == CHOOSE s \in starts : Cardinality({r \in starts : r < s}) = n - 1

LinesFrom(text, starts) ==
  [n \in 1..Cardinality(starts) |->
     SubSeq(text, NthStart(starts, n), LineEnd(text, NthStart(starts, n)))]

SplitLines(text) == LinesFrom(text, LineStarts(text))

MetadataPrefix == <<"@", "M", "E", "T", "A", "D", "A", "T", "A", " ", "\"">>

IsMetadataLine(line) == startsWith(line, MetadataPrefix)

\* The text up to the next double quote.
RECURSIVE UpToQuote(_)
UpToQuote(t) ==
  IF t = <<>> \/ Head(t) = "\"" THEN <<>> ELSE <<Head(t)>> \o UpToQuote(Tail(t))

KeyOfLine(line) == UpToQuote(SubSeq(line, Len(MetadataPrefix) + 1, Len(line)))

KeysOfLines(lines) == [k \in 1..Len(lines) |-> KeyOfLine(lines[k])]

\* The keys of the METADATA lines of a text, in the order of the lines.
MetadataLineKeys(text) == KeysOfLines(SelectSeq(SplitLines(text), IsMetadataLine))

IsLoadAndGo(line) == line = <<"@", "L", "O", "A", "D", "_", "A", "N", "D", "_", "G", "O">>

LoadAndGoLines(text) == Len(SelectSeq(SplitLines(text), IsLoadAndGo))

KeysOf(entries) == [k \in 1..Len(entries) |-> entries[k].key]

IsNotLgo(key) == key # Lgo

\* The keys of the metadata an object has.
OwnKeys(object) == IF Has(object, "metadata") THEN KeysOf(object.metadata) ELSE <<>>

KeysOfEach(objects) == Concat([k \in 1..Len(objects) |-> OwnKeys(objects[k])])

SectionKeys(seqJson, section) ==
  IF Has(seqJson, section) THEN KeysOfEach(seqJson[section]) ELSE <<>>

RequestKeys(request) == KeysOfEach(request.steps) \o OwnKeys(request)

\* The keys of the metadata of the steps, the commands and the requests of
\* a document, in the order they are written.
InnerKeys(seqJson) ==
  SectionKeys(seqJson, "steps") \o SectionKeys(seqJson, "immediate_commands")
    \o SectionKeys(seqJson, "hardware_commands")
    \o (IF Has(seqJson, "requests")
        THEN Concat([k \in 1..Len(seqJson.requests) |-> RequestKeys(seqJson.requests[k])])
        ELSE <<>>)

LgoIsTruthy(seqJson) ==
  HasKey(seqJson.metadata, Lgo) /\ Truthy(Lookup(seqJson.metadata, Lgo))

\* C9 as stated: 'lgo' is never the key of a METADATA line: of a document
\* with metadata the text has a METADATA line for each key of the metadata
\* but 'lgo', in the order of the keys, none for 'lgo', and the LOAD_AND_GO
\* directive exactly when the value of lgo is truthy.
C9_LgoNeverWritten ==
  Called("seqJsonToSeqn") /\ Has(arg.seqJson, "metadata") =>
    /\ ~ret.threw
    /\ \A k \in 1..Len(MetadataLineKeys(ret.value)) : MetadataLineKeys(ret.value)[k] # Lgo
    /\ startsWith(MetadataLineKeys(ret.value), SelectSeq(KeysOf(arg.seqJson.metadata), IsNotLgo))
    /\ LoadAndGoLines(ret.value) = (IF LgoIsTruthy(arg.seqJson) THEN 1 ELSE 0)

\* C9 as amended: the document's own key 'lgo' is never the key of a
\* METADATA line: of a document with metadata the METADATA lines of the text
\* are one for each key of the document's metadata but 'lgo', in the order
\* of the keys, then one for each key, 'lgo' too, of the metadata of each
\* step, command and request; and the text has the LOAD_AND_GO directive
\* exactly when the value of the document's lgo is truthy.
C9_DocumentLgoNotWritten ==
  Called("seqJsonToSeqn") /\ Has(arg.seqJson, "metadata") =>
    /\ ~ret.threw
    /\ MetadataLineKeys(ret.value)
         = SelectSeq(KeysOf(arg.seqJson.metadata), IsNotLgo) \o InnerKeys(arg.seqJson)
    /\ LoadAndGoLines(ret.value) = (IF LgoIsTruthy(arg.seqJson) THEN 1 ELSE 0)

\* A document with the keys a, lgo, b, lgo truthy, was written with the
\* lines of a and b.
C9_Witness ==
  /\ Called("seqJsonToSeqn") /\ Has(arg.seqJson, "metadata")
  /\ KeysOf(arg.seqJson.metadata) = <<<<"a">>, Lgo, <<"b">>>>
  /\ Lookup(arg.seqJson.metadata, Lgo) = JsonNumber(1)
  /\ Has(arg.seqJson, "steps") /\ arg.seqJson.steps = <<Noop>>
  /\ MetadataLineKeys(ret.value) = <<<<"a">>, <<"b">>>>
  /\ LoadAndGoLines(ret.value) = 1

\* The document is one command, with nothing after its arguments.
IsArgsDocument(seqJson) ==
  /\ Has(seqJson, "steps") /\ Len(seqJson.steps) = 1
  /\ seqJson.steps[1].type = "command"
  /\ DOMAIN seqJson.steps[1] = {"type", "time", "stem", "args"}
  /\ seqJson.steps[1].time = CommandComplete
  /\ DOMAIN seqJson = {"id", "metadata", "steps"}

\* The base arguments of all the argument sets, in order.
Flatten(value) == Concat([k \in 1..Len(value.items) |-> value.items[k].items])

BaseTexts(args) == [k \in 1..Len(args) |-> seqJsonBaseArgToSequence(args[k])]

\* An argument as the claim has it: a repeat argument is one bracket group
\* of its base arguments, one space between two of them.
Rendered(argument) ==
  IF argument.type = "repeat" THEN <<"[">> \o join(BaseTexts(Flatten(argument.value)), <<" ">>) \o <<"]">>
  ELSE seqJsonBaseArgToSequence(argument)

\* The arguments after the stem: one space before each.
RenderedArgs(args) == Concat([k \in 1..Len(args) |-> <<" ">> \o Rendered(args[k])])

\* C10: a repeat argument is written as one bracket group of the base
\* arguments of all its argument sets, in order, one space between two of
\* them, none after '[' or before ']', and one space between the group and
\* its neighbours; [[1,2],[3,4]] is written '[1 2 3 4]'.
C10_RepeatGroup ==
  Called("seqJsonToSeqn") /\ IsArgsDocument(arg.seqJson) =>
    /\ ~ret.threw
    /\ endsWith(ret.value,
                <<"\n", "C", " ">> \o arg.seqJson.steps[1].stem
                \o RenderedArgs(arg.seqJson.steps[1].args) \o <<"\n">>)
    /\ (arg.seqJson.steps[1].args = <<RepeatArgument(RepeatExample)>>
          => endsWith(ret.value, <<"\n", "C", " ", "C", "M", "D", " ", "[", "1", " ", "2", " ", "3", " ", "4", "]", "\n">>))

\* [[1,2],[3,4]] was written between two other arguments.
C10_Witness ==
  /\ Called("seqJsonToSeqn") /\ IsArgsDocument(arg.seqJson)
  /\ arg.seqJson.steps[1].args
       = <<SymbolArgument(<<"X">>), RepeatArgument(RepeatExample), BooleanArgument(FALSE)>>
  /\ endsWith(ret.value, <<"\n", "C", " ", "C", "M", "D", " ", "X", " ", "[", "1", " ", "2", " ", "3", " ", "4", "]", " ", "f", "a", "l", "s", "e", "\n">>)

\* The document declares one variable, as parameter or as local.
IsVariableDocument(seqJson) ==
  /\ Has(seqJson, "parameters") # Has(seqJson, "locals")
  /\ Len(IF Has(seqJson, "parameters") THEN seqJson.parameters ELSE seqJson.locals) = 1

DeclaredVariable(seqJson) ==
  IF Has(seqJson, "parameters") THEN seqJson.parameters[1] ELSE seqJson.locals[1]

BlockName(seqJson) == IF Has(seqJson, "parameters") THEN <<"I", "N", "P", "U", "T", "_", "P", "A", "R", "A", "M", "S">> ELSE <<"L", "O", "C", "A", "L", "S">>

\* The places of the double quotes of a line, and the texts between the
\* first and the second of them, the third and the fourth, and so on.
QuotePlaces(line) == {k \in 1..Len(line) : line[k] = "\""}

QuotedParts(line) ==
  [n \in 1..(Cardinality(QuotePlaces(line)) \div 2) |->
     SubSeq(line, NthStart(QuotePlaces(line), 2 * n - 1) + 1,
            NthStart(QuotePlaces(line), 2 * n) - 1)]

\* The line up to its first double quote, without the space before it.
Unquoted(line) ==
  IF QuotePlaces(line) = {} THEN line
  ELSE trimEnd(SubSeq(line, 1, NthStart(QuotePlaces(line), 1) - 1))

\* The ranges a variable has to write: none for no list and for an empty one.
RangesToWrite(variable) ==
  IF Has(variable, "allowable_ranges") THEN variable.allowable_ranges ELSE <<>>

RangesQuote(variable) ==
  join([k \in 1..Len(RangesToWrite(variable)) |-> RangeToSequence(RangesToWrite(variable)[k])],
       <<",">>)

ValuesQuote(variable) ==
  join([k \in 1..Len(variable.allowable_values) |-> TemplateText(variable.allowable_values[k])],
       <<",">>)

\* The quotes of a variable's line as stated: the ranges when there are
\* some, an empty quote in their place when there are only values, then the
\* values.
QuotesAsStated(variable) ==
  (IF RangesToWrite(variable) # <<>> THEN <<RangesQuote(variable)>>
   ELSE IF Has(variable, "allowable_values") THEN <<<<>>>> ELSE <<>>)
  \o (IF Has(variable, "allowable_values") THEN <<ValuesQuote(variable)>> ELSE <<>>)

NameTypeEnum(variable) ==
  variable.name
  \o (IF TruthyText(variable, "type") THEN <<" ">> \o variable.type ELSE <<>>)
  \o (IF TruthyText(variable, "enum_name") THEN <<" ">> \o variable.enum_name ELSE <<>>)

\* C13: the line of a variable in an INPUT_PARAMS or LOCALS block is name
\* [type] [enum_name] ["ranges"] ["values"]: the ranges quote when there is
\* at least one range, an empty quote once and just before the values quote
\* only when there are values and no ranges, and no quote at all for a
\* variable without ranges to write (no list or an empty one) and without
\* values; in every text that seqJsonToSeqn returns.
C13_VariableQuotes ==
  Called("seqJsonToSeqn") /\ IsVariableDocument(arg.seqJson) /\ ~ret.threw =>
    /\ SplitLines(ret.value)[2] = <<"@">> \o BlockName(arg.seqJson) \o <<"_", "B", "E", "G", "I", "N">>
    /\ SplitLines(ret.value)[4] = <<"@">> \o BlockName(arg.seqJson) \o <<"_", "E", "N", "D">>
    /\ Unquoted(SplitLines(ret.value)[3]) = NameTypeEnum(DeclaredVariable(arg.seqJson))
    /\ QuotedParts(SplitLines(ret.value)[3]) = QuotesAsStated(DeclaredVariable(arg.seqJson))

\* What opens the line of a step, of an immediate or hardware command and of
\* a request in the documents drawn, and what opens a line that follows one.
HeaderMarks ==
  { <<"C", "M", "D">>, <<"N", "O", "O", "P">>, <<"H", "D", "W">>, <<"@", "A", "C", "T", "I", "V", "A", "T", "E", "(">>, <<"@", "L", "O", "A", "D", "(">>, <<"@", "G", "R", "O", "U", "N", "D", "_", "B", "L", "O", "C", "K", "(">>,
    <<"@", "G", "R", "O", "U", "N", "D", "_", "E", "V", "E", "N", "T", "(">>, <<"@", "R", "E", "Q", "U", "E", "S", "T", "_", "B", "E", "G", "I", "N", "(">>}

TrailerMarks ==
  { <<"@", "E", "N", "G", "I", "N", "E">>, <<"@", "E", "P", "O", "C", "H">>, <<"@", "M", "E", "T", "A", "D", "A", "T", "A">>, <<"@", "M", "O", "D", "E", "L">>, <<"@", "I", "M", "M", "E", "D", "I", "A", "T", "E">>, <<"@", "H", "A", "R", "D", "W", "A", "R", "E">>,
    <<"@", "R", "E", "Q", "U", "E", "S", "T", "_", "E", "N", "D">>}

\* The places of a line where one of the marks stands.
MarksIn(line, marks) ==
  {<<k, mark>> \in (1..Len(line)) \X marks :
     k + Len(mark) - 1 <= Len(line) /\ SubSeq(line, k, k + Len(mark) - 1) = mark}

IsHeaderLine(line) == MarksIn(line, HeaderMarks) # {}

\* The line opens a section or a request, which the code sets off with an
\* empty line of its own.
OpensSection(line) ==
  line \in { <<"@", "I", "M", "M", "E", "D", "I", "A", "T", "E">>, <<"@", "H", "A", "R", "D", "W", "A", "R", "E">>} \/ MarksIn(line, { <<"@", "R", "E", "Q", "U", "E", "S", "T", "_", "B", "E", "G", "I", "N", "(">>}) # {}

ListOf(object, property) == IF Has(object, property) THEN object[property] ELSE <<>>

\* The steps, commands and requests of a document, the steps of its
\* requests included.
BlocksOf(seqJson) ==
  ListOf(seqJson, "steps") \o ListOf(seqJson, "immediate_commands")
  \o ListOf(seqJson, "hardware_commands") \o ListOf(seqJson, "requests")
  \o Concat([k \in 1..Len(ListOf(seqJson, "requests")) |-> seqJson.requests[k].steps])

IsBlockDocument(seqJson) ==
  Has(seqJson, "metadata") /\ ~Has(seqJson, "parameters") /\ ~Has(seqJson, "locals")

\* Every line holds at most one block or trailer, the header lines are as
\* many as the blocks, a described header line ends with its description, and
\* after a header line comes no empty line but the one that sets off the next
\* section, and the end of the text.
OneNewlineEach(seqJson, lines) ==
  /\ \A k \in 1..Len(lines) : IsHeaderLine(lines[k]) => k < Len(lines)
  /\ \A k \in 1..Len(lines) : Cardinality(MarksIn(lines[k], HeaderMarks \cup TrailerMarks)) <= 1
  /\ Cardinality({k \in 1..Len(lines) : IsHeaderLine(lines[k])}) = Len(BlocksOf(seqJson))
  /\ Cardinality({k \in 1..Len(lines) : endsWith(lines[k], <<" ", "#", " ", "n", "o", "t", "e">>)})
       = Len(SelectSeq(BlocksOf(seqJson), LAMBDA block : TruthyText(block, "description")))
  /\ \A k \in 1..(Len(lines) - 1) :
       IsHeaderLine(lines[k]) /\ lines[k + 1] = <<>> =>
         k + 1 = Len(lines) \/ OpensSection(lines[k + 2])

\* C14: in the text seqJsonToSeqn returns, the line of every step, immediate
\* command, hardware command and request ends with exactly one newline
\* before what follows it, with and without a description: no two blocks
\* share a line and no second newline follows a description.
C14_OneNewlineEach ==
  Called("seqJsonToSeqn") /\ IsBlockDocument(arg.seqJson) /\ ~ret.threw =>
    OneNewlineEach(arg.seqJson, SplitLines(ret.value))

\* A document of a step, a described immediate command with metadata, a
\* hardware command and two requests was written.
C14_Witness ==
  /\ Called("seqJsonToSeqn") /\ ~ret.threw
  /\ IsBlockDocument(arg.seqJson)
  /\ Has(arg.seqJson, "steps") /\ Has(arg.seqJson, "immediate_commands")
  /\ Has(arg.seqJson, "hardware_commands") /\ Has(arg.seqJson, "requests")
  /\ Len(arg.seqJson.requests) = 2
  /\ TruthyText(arg.seqJson.immediate_commands[1], "description")
  /\ Has(arg.seqJson.immediate_commands[1], "metadata")
  /\ ~TruthyText(arg.seqJson.hardware_commands[1], "description")
  /\ Len(BlocksOf(arg.seqJson)) = 7

=============================================================================
